---- MODULE Spec2Model ----
(***************************************************************************)
(* Model of the buffer-bounded segmented FIF writer of mne/io/base.py:     *)
(* BaseRaw.save -> _write_raw -> _RawFidWriter.write -> _write_raw_data.   *)
(* One save is one behaviour: Init picks the arguments of the save, each   *)
(* WritePart step is one iteration of the for loop of _write_raw (one      *)
(* output file), and the loop ends by break (return) or by exhaustion      *)
(* (the for-else raise).                                                   *)
(***************************************************************************)
EXTENDS Integers, Sequences, FiniteSets, TLC

\* ---------------------------------------------------------------- bounds
MaxStart == 1
MaxStop == 4
MaxBuf == 2
MaxSkips == 2
MaxSplitUnits == 4
MaxFirstSamp == 1
NChan == 40

\* ------------------------------------------------------ program constants
MAX_N_SPLITS == 100

\* Sizes of the primitives of mne/_fiff/write.py, in bytes.
NEXT_FILE_BUFFER == 1048576
TagHeaderBytes == 16
IntBytes == 4
FloatBytes == 4
IdBytes == 20
NameBytes == 8
MetaBytes == 1000
SplitUnitBytes == 180

\* write_int, start_block and end_block each write one tag with an int payload.
IntTagBytes == TagHeaderBytes + IntBytes

\* The FIFFB_REF block of a back or forward reference: start_block, role,
\* file name, file id, file number, end_block.
RefBlockBytes ==
    IntTagBytes + IntTagBytes + (TagHeaderBytes + NameBytes)
    + (TagHeaderBytes + IdBytes) + IntTagBytes + IntTagBytes

\* _write_raw_buffer with fmt="single": one tag holding nchan * n floats.
BufferBytes(n) == TagHeaderBytes + NChan * n * FloatBytes

\* ------------------------------------------------------------ file names
NoName == <<"none", 0>>
GivenName == <<"given", 0>>

\* _make_split_fnames: neuromag keeps the given name for part 0 and appends
\* -<i> for part i; bids puts _split-<i+1> into every name.
MakeSplitFnames(split_naming) ==
    [i \in 0..MAX_N_SPLITS |->
        IF split_naming = "neuromag"
        THEN (IF i = 0 THEN GivenName ELSE <<"neuromag", i>>)
        ELSE <<"bids", i + 1>>]

\* ----------------------------------------------------------------- state
VARIABLES
    cfg,            \* the arguments of the save (fixed during the save)
    part_idx,       \* loop variable of _write_raw
    is_next_split,  \* _write_raw
    prev_fname,     \* _write_raw
    output_fnames,  \* _write_raw
    wstart,         \* _RawFidWriter.start
    disk,           \* file name -> file written so far
    warnings,       \* number of 'will be written as zeroes' warnings
    result,         \* "running" | "returned" | "RuntimeError" | "ValueError"
    raw,            \* the raw container (BaseRaw): its attributes
    op,             \* the last operation on the container: arguments, outcome
    nops,           \* number of operations applied to the container
    sl              \* the SlidingEstimator: its attributes and jobs in flight

\* What the operations on a container leave alone.
savevars == <<cfg, part_idx, is_next_split, prev_fname, output_fnames, wstart,
              disk, warnings, result, sl>>

\* What the writer leaves alone.
rawvars == <<raw, op, nops, sl>>

vars == <<cfg, part_idx, is_next_split, prev_fname, output_fnames, wstart,
          disk, warnings, result, raw, op, nops, sl>>

\* ------------------------------------------------------------ the inputs
SkipIntervals == {<<a, b>> \in (0..MaxStop) \X (0..MaxStop) : a < b}

\* The bad_acq_skip intervals (onset, end) in samples, as _annotations_starts_stops
\* returns them; the inputs are limited to intervals that do not overlap.
SkipSets ==
    {s \in SUBSET SkipIntervals :
        /\ Cardinality(s) <= MaxSkips
        /\ \A x, y \in s : x = y \/ x[2] <= y[1] \/ y[2] <= x[1]}

\* A split_size below the reserve: it holds the measurement information of a
\* first file and nothing more.
SmallSplitSize == MetaBytes + IntBytes

SplitSizes ==
    {NEXT_FILE_BUFFER + MetaBytes + SplitUnitBytes * k : k \in 1..MaxSplitUnits}
    \cup {SmallSplitSize}

SmallConfigs ==
    {c \in [start : 0..MaxStart, stop : 1..MaxStop, buffer_size : 1..MaxBuf,
            split_size : SplitSizes, drop_small_buffer : BOOLEAN,
            split_naming : {"neuromag", "bids"}, first_samp : 0..MaxFirstSamp,
            skips : SkipSets, n_times : {MaxStop}] :
        c.start < c.stop}

\* Recordings of about MAX_N_SPLITS buffers, written two buffers to part 0 and
\* one buffer to every later part: MAX_N_SPLITS - 1, MAX_N_SPLITS and
\* MAX_N_SPLITS + 1 files are needed.
LongConfigs ==
    [start : {0}, stop : MAX_N_SPLITS..(MAX_N_SPLITS + 2), buffer_size : {1},
     split_size : {NEXT_FILE_BUFFER + MetaBytes + SplitUnitBytes * 2},
     drop_small_buffer : {FALSE}, split_naming : {"neuromag", "bids"},
     first_samp : {0}, skips : {{}}, n_times : {MAX_N_SPLITS + 2}]

Configs == SmallConfigs \cup LongConfigs

\* ------------------------------------------------------- _write_raw_data
\* firsts = list(range(start, stop, buffer_size)); lasts = firsts + buffer_size,
\* the last one clipped to stop.
NBuffers(c, start) == (c.stop - start + c.buffer_size - 1) \div c.buffer_size

FirstOf(c, start, k) == start + k * c.buffer_size

\* Mutant of LastOf: the last buffer is not clipped to stop.
LastOfUnclipped(c, start, k) == FirstOf(c, start, k) + c.buffer_size

LastOf(c, start, k) ==
    IF k = NBuffers(c, start) - 1 /\ FirstOf(c, start, k) + c.buffer_size > c.stop
    THEN c.stop
    ELSE FirstOf(c, start, k) + c.buffer_size

Firsts(c, start) == {FirstOf(c, start, k) : k \in 0..(NBuffers(c, start) - 1)}

Lasts(c, start) == {LastOf(c, start, k) : k \in 0..(NBuffers(c, start) - 1)}

\* np.isin(sk_onsets, firsts).all() and np.isin(sk_ends, lasts).all()
SkipsAligned(c, start) ==
    /\ \A s \in c.skips : s[1] \in Firsts(c, start)
    /\ \A s \in c.skips : s[2] \in Lasts(c, start)

DoSkips(c, start) == c.skips # {} /\ SkipsAligned(c, start)

\* The warning is given only while writing part 0.
WarnsZeroes(c, start, part) ==
    c.skips # {} /\ ~SkipsAligned(c, start) /\ part = 0

\* ((first >= sk_onsets) & (last <= sk_ends)).any()
InSkip(c, first, last) == \E s \in c.skips : first >= s[1] /\ last <= s[2]

\* Mutant of Overage: the reserved trailer is left out of the test.
OverageNoReserve(c, pos) == pos - c.split_size

\* overage = pos - split_size + _NEXT_FILE_BUFFER; overage > 0 raises.
Overage(c, pos) == pos - c.split_size + NEXT_FILE_BUFFER

\* Mutant of SplitNeeded: a file is split only before a full buffer.
SplitNeededFullBuffer(c, pos, this_buff_size_bytes, first) ==
    /\ pos >= c.split_size - this_buff_size_bytes - NEXT_FILE_BUFFER
    /\ first + 2 * c.buffer_size <= c.stop

\* The split test made after a buffer has been written.
SplitNeeded(c, pos, this_buff_size_bytes, first) ==
    /\ pos >= c.split_size - this_buff_size_bytes - NEXT_FILE_BUFFER
    /\ first + c.buffer_size < c.stop

\* The drop_small_buffer test made before a buffer is written.
DropsBuffer(c, start, first, last) ==
    c.drop_small_buffer /\ first > start /\ last - first < c.buffer_size

\* The header of the data block: first-sample tag and back reference.
FirstSampTag(c, start) ==
    IF c.first_samp + start # 0 THEN <<c.first_samp + start>> ELSE <<>>

PrevRef(part, prev) ==
    IF part > 0 /\ prev # NoName THEN <<[name |-> prev, num |-> part - 1]>> ELSE <<>>

HeaderBytes(c, start, part, prev) ==
    MetaBytes + Len(FirstSampTag(c, start)) * IntTagBytes
    + Len(PrevRef(part, prev)) * RefBlockBytes

BufRec(first, last, pos, this) ==
    [kind |-> "buf", first |-> first, last |-> last, n |-> 0, pos |-> pos,
     this_bytes |-> this]

SkipRec(first, n, pos) ==
    [kind |-> "skip", first |-> first, last |-> first, n |-> n, pos |-> pos,
     this_bytes |-> IntTagBytes]

\* The for loop over zip(firsts, lasts), from its k-th iteration on.  st holds
\* the loop's variables: n_current_skip, new_start, pos_prev, the file offset pos,
\* the tags written (recs) and how the loop ended (exit).
RECURSIVE WriteBlocks(_, _, _, _)
WriteBlocks(c, start, k, st) ==
    IF k >= NBuffers(c, start) THEN st
    ELSE
      LET first == FirstOf(c, start, k)
          last == LastOf(c, start, k)
      IN
      IF DoSkips(c, start) /\ InSkip(c, first, last)
      THEN WriteBlocks(c, start, k + 1,
                       [st EXCEPT !.n_current_skip = @ + 1])
      ELSE
        LET st1 ==
              IF DoSkips(c, start) /\ st.n_current_skip > 0
              THEN [st EXCEPT
                      !.recs = Append(@, SkipRec(first, st.n_current_skip,
                                                 st.pos + IntTagBytes)),
                      !.pos = @ + IntTagBytes,
                      !.n_current_skip = 0]
              ELSE st
        IN
        IF DropsBuffer(c, start, first, last)
        THEN [st1 EXCEPT !.exit = "drop"]
        ELSE
          LET pos == st1.pos + BufferBytes(last - first)
              this_buff_size_bytes == pos - st1.pos_prev
              written == [st1 EXCEPT
                            !.recs = Append(@, BufRec(first, last, pos,
                                                      this_buff_size_bytes)),
                            !.pos = pos]
          IN
          IF Overage(c, pos) > 0
          THEN [written EXCEPT !.exit = "buffer_too_large"]
          ELSE IF SplitNeeded(c, pos, this_buff_size_bytes, first)
          THEN [written EXCEPT !.new_start = last,
                               !.pos = pos + RefBlockBytes,
                               !.exit = "split"]
          ELSE WriteBlocks(c, start, k + 1,
                           [written EXCEPT !.new_start = last,
                                           !.pos_prev = pos])

\* _write_raw_data as a whole: the header, the size check, the loop.
WriteRawData(c, start, part, prev) ==
    LET pos_prev == HeaderBytes(c, start, part, prev)
        st0 == [n_current_skip |-> 0, new_start |-> start, pos_prev |-> pos_prev,
                pos |-> pos_prev, recs |-> <<>>, exit |-> "end"]
    IN
    IF pos_prev > c.split_size
    THEN [st0 EXCEPT !.exit = "header_too_large"]
    ELSE WriteBlocks(c, start, 0, st0)

\* (variant) only the size check of the header raises.
RaisesHeaderOnly(exit) == exit \in {"header_too_large"}

Raises(exit) == exit \in {"header_too_large", "buffer_too_large"}

\* The bytes that close a file: end_block of the data block, end_block of the
\* measurement block, and the closing tag of end_file.
ClosingBytes == IntTagBytes + IntTagBytes + TagHeaderBytes

\* The file one call of _RawFidWriter.write leaves behind.
FileWritten(c, start, part, prev, next) ==
    LET w == WriteRawData(c, start, part, prev)
    IN [part |-> part,
        start |-> start,
        first_samp_tag |-> FirstSampTag(c, start),
        prev_ref |-> PrevRef(part, prev),
        recs |-> w.recs,
        next_ref |-> IF w.exit = "split"
                     THEN <<[name |-> next, num |-> part + 1]>>
                     ELSE <<>>,
        exit |-> w.exit,
        new_start |-> w.new_start,
        size |-> IF Raises(w.exit) THEN w.pos ELSE w.pos + ClosingBytes]

ReservedFile ==
    [part |-> -1, start |-> 0, first_samp_tag |-> <<>>, prev_ref |-> <<>>,
     recs |-> <<>>, next_ref |-> <<>>, exit |-> "reserved", new_start |-> 0,
     size |-> 0]

\* _check_start_stop_within_bounds
StartStopWithinBounds(c, start) == ~(start >= c.stop \/ c.stop > c.n_times)

\* ------------------------------------------------------------ _write_raw
\* The file the part is written to: under bids naming part 0 goes to the given
\* name while split_fnames[0] is reserved.
BidsSpecialBehavior(c, part) == part = 0 /\ c.split_naming = "bids"

UseFpath(c, part) ==
    IF BidsSpecialBehavior(c, part) THEN GivenName
    ELSE MakeSplitFnames(c.split_naming)[part]

NextFname(c, part) == MakeSplitFnames(c.split_naming)[part + 1]

\* is_next_split = self.start < self.stop
IsNextSplit(c, start) == start < c.stop

\* prev_fname as the loop body leaves it: the assignment after the if/else.
PrevFnameAfter(c, part, next_split) == UseFpath(c, part)

\* The name appended to output_fnames, which is also where the file ends up.
OutputFname(c, part, next_split) ==
    IF BidsSpecialBehavior(c, part) /\ next_split
    THEN MakeSplitFnames(c.split_naming)[0]
    ELSE UseFpath(c, part)

Remove(d, name) == [n \in (DOMAIN d) \ {name} |-> d[n]]

\* _ReservedFilename.__init__: under bids naming split_fnames[0] is created
\* empty before part 0 is written.
Reserve(d, c, part) ==
    IF BidsSpecialBehavior(c, part)
    THEN (MakeSplitFnames(c.split_naming)[0] :> ReservedFile) @@ d
    ELSE d

\* (variant) the reserved file is left in place.
ReservedExitKeeps(d, c, part) == d

\* _ReservedFilename.__exit__: the reserved file is unlinked when the with
\* block is left, by return or by an exception.
ReservedExit(d, c, part) ==
    IF BidsSpecialBehavior(c, part)
    THEN Remove(d, MakeSplitFnames(c.split_naming)[0])
    ELSE d

\* for part_idx in range(0, MAX_N_SPLITS): ... else: raise
LoopBreaks(part, next_split) == part < MAX_N_SPLITS /\ ~next_split

LoopExhausted(part, next_split) == part >= MAX_N_SPLITS

SaveInit ==
    /\ cfg \in Configs
    /\ part_idx = 0
    /\ is_next_split = TRUE
    /\ prev_fname = NoName
    /\ output_fnames = <<>>
    /\ wstart = cfg.start
    /\ disk = <<>>
    /\ warnings = 0
    /\ result = "running"
    /\ raw = <<>>
    /\ op = <<>>
    /\ nops = 0
    /\ sl = <<>>

\* One iteration of the for loop of _write_raw: open the file, call
\* raw_fid_writer.write, close, rename or record the file.
WritePart ==
    /\ result = "running"
    /\ part_idx < MAX_N_SPLITS
    /\ is_next_split
    /\ LET use_fpath == UseFpath(cfg, part_idx)
           f == FileWritten(cfg, wstart, part_idx, prev_fname,
                            NextFname(cfg, part_idx))
           next_split == IsNextSplit(cfg, f.new_start)
           out == OutputFname(cfg, part_idx, next_split)
       IN
       IF ~StartStopWithinBounds(cfg, wstart)
       THEN /\ result' = "RuntimeError"
            /\ disk' = ReservedExit((use_fpath :> ReservedFile)
                                    @@ Reserve(disk, cfg, part_idx),
                                    cfg, part_idx)
            /\ UNCHANGED <<cfg, part_idx, is_next_split, prev_fname,
                           output_fnames, wstart, warnings>>
       ELSE IF Raises(f.exit)
       THEN /\ result' = "ValueError"
            /\ disk' = ReservedExit((use_fpath :> f) @@ Reserve(disk, cfg, part_idx),
                                    cfg, part_idx)
            /\ warnings' = IF f.exit # "header_too_large"
                              /\ WarnsZeroes(cfg, wstart, part_idx)
                           THEN warnings + 1 ELSE warnings
            /\ UNCHANGED <<cfg, part_idx, is_next_split, prev_fname,
                           output_fnames, wstart>>
       ELSE /\ wstart' = f.new_start
            /\ is_next_split' = next_split
            /\ disk' = (out :> f)
                       @@ Remove(ReservedExit((use_fpath :> f)
                                                @@ Reserve(disk, cfg, part_idx),
                                              cfg, part_idx),
                                 use_fpath)
            /\ output_fnames' = Append(output_fnames, out)
            /\ prev_fname' = PrevFnameAfter(cfg, part_idx, next_split)
            /\ part_idx' = part_idx + 1
            /\ warnings' = IF WarnsZeroes(cfg, wstart, part_idx)
                           THEN warnings + 1 ELSE warnings
            /\ UNCHANGED <<cfg, result>>
    /\ UNCHANGED rawvars

\* The loop is left by break: _write_raw returns output_fnames.
Return ==
    /\ result = "running"
    /\ LoopBreaks(part_idx, is_next_split)
    /\ result' = "returned"
    /\ UNCHANGED <<cfg, part_idx, is_next_split, prev_fname, output_fnames,
                   wstart, disk, warnings>>
    /\ UNCHANGED rawvars

\* The loop runs out of part indices: the else branch of the for loop raises.
RaiseMaxSplits ==
    /\ result = "running"
    /\ LoopExhausted(part_idx, is_next_split)
    /\ result' = "RuntimeError"
    /\ UNCHANGED <<cfg, part_idx, is_next_split, prev_fname, output_fnames,
                   wstart, disk, warnings>>
    /\ UNCHANGED rawvars

SaveNext == WritePart \/ Return \/ RaiseMaxSplits

SaveSpec == SaveInit /\ [][SaveNext]_vars

\* ================================================================ claims
\* The files of the save in output-file order, and what is in them.
OutFile(i) == disk[output_fnames[i]]

IsBuf(r) == r.kind = "buf"

BufRecs(f) == SelectSeq(f.recs, IsBuf)

RECURSIVE BufsUpTo(_)
BufsUpTo(i) == IF i = 0 THEN <<>> ELSE BufsUpTo(i - 1) \o BufRecs(OutFile(i))

\* The data buffers of the save, in output-file order.
AllBufs == BufsUpTo(Len(output_fnames))

\* A buffer record whose write did not raise: every one but the last record of
\* a file that ended with the 'buffer size is too large' error.
WrittenOk(f, i) ==
    IsBuf(f.recs[i]) /\ ~(f.exit = "buffer_too_large" /\ i = Len(f.recs))

\* The file offset after the last data buffer of the file (after the header
\* when the file holds no buffer).
PosAfterLastBuf(f) ==
    IF BufRecs(f) = <<>> THEN f.size - ClosingBytes
    ELSE BufRecs(f)[Len(BufRecs(f))].pos

\* C1: after every buffer write that does not raise, the file offset is at most
\* split_size - _NEXT_FILE_BUFFER; and in a save that returned, every output
\* file whose bytes after the last buffer fit in _NEXT_FILE_BUFFER is at most
\* split_size bytes long.
C1_FileWithinSplitSize ==
    /\ \A name \in DOMAIN disk :
         \A i \in 1..Len(disk[name].recs) :
            WrittenOk(disk[name], i)
               => disk[name].recs[i].pos <= cfg.split_size - NEXT_FILE_BUFFER
    /\ result = "returned" =>
         \A i \in 1..Len(output_fnames) :
            (OutFile(i).size - PosAfterLastBuf(OutFile(i)) <= NEXT_FILE_BUFFER)
               => OutFile(i).size <= cfg.split_size

\* C1 witness: a save that returned three files, one of them filled by its
\* buffers until no further one-sample buffer would fit under
\* split_size - _NEXT_FILE_BUFFER.
C1_Witness ==
    /\ result = "returned"
    /\ Len(output_fnames) >= 3
    /\ \E i \in 1..Len(output_fnames) :
          /\ Len(BufRecs(OutFile(i))) >= 2
          /\ PosAfterLastBuf(OutFile(i)) + BufferBytes(1)
                > cfg.split_size - NEXT_FILE_BUFFER

\* The sample at which the data buffers of the i-th output file end.
PosAfterLastBufSample(i) == BufRecs(OutFile(i))[Len(BufRecs(OutFile(i)))].last

\* C2: without skip annotations and with drop_small_buffer off, the data
\* buffers in output-file order are non-empty, start at start, each begins
\* where the one before ended, and end at stop once the save has returned;
\* every file after the first starts where the previous file stopped and its
\* first-sample tag is raw.first_samp plus that sample.
C2_BuffersCoverRange ==
    (cfg.skips = {} /\ ~cfg.drop_small_buffer) =>
       /\ \A j \in 1..Len(AllBufs) :
             /\ AllBufs[j].first < AllBufs[j].last
             /\ AllBufs[j].first =
                   (IF j = 1 THEN cfg.start ELSE AllBufs[j - 1].last)
       /\ result = "returned" =>
             /\ AllBufs # <<>>
             /\ AllBufs[Len(AllBufs)].last = cfg.stop
       /\ \A i \in 2..Len(output_fnames) :
             /\ BufRecs(OutFile(i - 1)) # <<>>
             /\ OutFile(i).start = PosAfterLastBufSample(i - 1)
             /\ BufRecs(OutFile(i)) # <<>> =>
                   BufRecs(OutFile(i))[1].first = OutFile(i).start
             /\ OutFile(i).first_samp_tag = <<cfg.first_samp + OutFile(i).start>>

\* C2 witness: such a save returned with its range spread over two files or
\* more, the last buffer being a short one.
C2_Witness ==
    /\ cfg.skips = {} /\ ~cfg.drop_small_buffer
    /\ result = "returned"
    /\ Len(output_fnames) >= 2
    /\ AllBufs[Len(AllBufs)].last - AllBufs[Len(AllBufs)].first < cfg.buffer_size

\* The file ends with a forward reference written right after its i-th record.
SplitsAfter(f, i) == f.next_ref # <<>> /\ i = Len(f.recs)

\* The file written after f in the same save starts at sample s.
NextFileStartsAt(f, s) ==
    \E name \in DOMAIN disk : disk[name].part = f.part + 1 /\ disk[name].start = s

\* C3 as stated: a file is ended with a forward reference after a buffer exactly
\* when the offset has reached split_size minus the byte length of that buffer
\* minus _NEXT_FILE_BUFFER and a full buffer of buffer_size samples remains
\* before stop.
C3_SplitOnlyBeforeFullBuffer ==
    \A name \in DOMAIN disk :
       \A i \in 1..Len(disk[name].recs) :
          LET f == disk[name]
              r == f.recs[i]
          IN WrittenOk(f, i) =>
                (SplitsAfter(f, i) <=>
                   /\ r.pos >= cfg.split_size - BufferBytes(r.last - r.first)
                                - NEXT_FILE_BUFFER
                   /\ r.first + 2 * cfg.buffer_size <= cfg.stop)

\* The offset after the last data buffer written before the i-th record of f.
PosOfBufBefore(f, i) ==
    LET j == CHOOSE j \in 1..(i - 1) :
                /\ IsBuf(f.recs[j])
                /\ \A m \in (j + 1)..(i - 1) : ~IsBuf(f.recs[m])
    IN f.recs[j].pos

\* C3 amended: a file is ended with a forward reference after a buffer exactly
\* when the offset has reached split_size minus the bytes written since the
\* previous buffer (the buffer and a skip marker before it) minus
\* _NEXT_FILE_BUFFER and at least one sample remains after the buffer, that is
\* first + buffer_size < stop; the file then reports the end sample of that
\* buffer as the new start, and the next file of the save starts there.
C3_SplitWhenAnotherBufferNeeded ==
    \A name \in DOMAIN disk :
       \A i \in 1..Len(disk[name].recs) :
          LET f == disk[name]
              r == f.recs[i]
              since_prev == r.pos - (IF \E j \in 1..(i - 1) : IsBuf(f.recs[j])
                                     THEN PosOfBufBefore(f, i)
                                     ELSE HeaderBytes(cfg, f.start, f.part,
                                            IF f.prev_ref = <<>> THEN NoName
                                            ELSE f.prev_ref[1].name))
          IN WrittenOk(f, i) =>
                /\ SplitsAfter(f, i) <=>
                      /\ r.pos >= cfg.split_size - since_prev - NEXT_FILE_BUFFER
                      /\ r.first + cfg.buffer_size < cfg.stop
                /\ SplitsAfter(f, i) =>
                      /\ f.new_start = r.last
                      /\ f.part + 1 < part_idx => NextFileStartsAt(f, r.last)

\* C3 witness: a file was split although only a short buffer was left, and the
\* next file of the save holds that buffer.
C3_Witness ==
    \E name \in DOMAIN disk :
       LET f == disk[name]
       IN /\ f.next_ref # <<>>
          /\ f.new_start + cfg.buffer_size > cfg.stop
          /\ NextFileStartsAt(f, f.new_start)
          /\ result = "returned"

\* The end of the last full buffer of [start, stop).
LastFullEnd(c) ==
    c.start + ((c.stop - c.start) \div c.buffer_size) * c.buffer_size

\* The last buffer of [start, stop) is short and is not the first buffer.
ShortLastBuffer(c) ==
    /\ (c.stop - c.start) % c.buffer_size # 0
    /\ c.stop - c.start > c.buffer_size

\* The number of files a save of c writes when it runs from part on.
RECURSIVE FilesOfSave(_, _, _)
FilesOfSave(c, start, part) ==
    IF part >= MAX_N_SPLITS \/ ~IsNextSplit(c, start) THEN part
    ELSE LET f == FileWritten(c, start, part,
                              IF part = 0 THEN NoName ELSE GivenName,
                              NextFname(c, part))
         IN IF Raises(f.exit) THEN part + 1
            ELSE FilesOfSave(c, f.new_start, part + 1)

\* C4: with drop_small_buffer, a short last buffer that is not the first
\* buffer of the save is in no file, and the save writes as many files as it
\* would with stop rounded down to the last full buffer.
C4_ShortLastBufferDropped ==
    (cfg.drop_small_buffer /\ ShortLastBuffer(cfg)) =>
       /\ \A name \in DOMAIN disk :
             \A i \in 1..Len(disk[name].recs) :
                IsBuf(disk[name].recs[i])
                   => disk[name].recs[i].last <= LastFullEnd(cfg)
       /\ result = "returned" =>
             Len(output_fnames) =
                FilesOfSave([cfg EXCEPT !.stop = LastFullEnd(cfg)], cfg.start, 0)

\* C5: in a save that returned, an output file ends with a forward reference
\* if and only if another file follows it, and the reference names the file of
\* split index part_idx + 1 with file number part_idx + 1.
C5_ForwardRefIffNextFile ==
    result = "returned" =>
       \A i \in 1..Len(output_fnames) :
          /\ OutFile(i).next_ref # <<>> <=> i < Len(output_fnames)
          /\ OutFile(i).next_ref # <<>> =>
                OutFile(i).next_ref =
                   <<[name |-> NextFname(cfg, i - 1), num |-> i]>>

\* C6: in a save that returned, the file of part 0 has no back reference, and
\* the back reference of the file of part k >= 1 carries file number k - 1 and
\* names a file on disk that holds part k - 1.
C6_BackRefNamesPreviousFile ==
    result = "returned" =>
       \A name \in DOMAIN disk :
          LET f == disk[name]
          IN /\ f.part = 0 => f.prev_ref = <<>>
             /\ f.part >= 1 =>
                   /\ Len(f.prev_ref) = 1
                   /\ f.prev_ref[1].num = f.part - 1
                   /\ f.prev_ref[1].name \in DOMAIN disk
                   /\ disk[f.prev_ref[1].name].part = f.part - 1

\* The buffers of the whole save, numbered from 0, and those inside a skip.
SaveBuffers == 0..(NBuffers(cfg, cfg.start) - 1)

SkippedBuffer(k) ==
    InSkip(cfg, FirstOf(cfg, cfg.start, k), LastOf(cfg, cfg.start, k))

\* i..j is a maximal run of consecutive buffers inside skip intervals.
MaximalSkipRun(i, j) ==
    /\ i <= j
    /\ \A k \in i..j : SkippedBuffer(k)
    /\ (i - 1) \in SaveBuffers => ~SkippedBuffer(i - 1)
    /\ (j + 1) \in SaveBuffers => ~SkippedBuffer(j + 1)

\* The skip markers written for the run that ends before sample s.
SkipMarkersAt(s) ==
    {p \in {<<name, i>> : name \in DOMAIN disk, i \in 1..(MaxStop + 1)} :
        /\ p[2] <= Len(disk[p[1]].recs)
        /\ disk[p[1]].recs[p[2]].kind = "skip"
        /\ disk[p[1]].recs[p[2]].first = s}

\* C7: when every skip onset and end is a buffer boundary of the save, then
\* once the save has ended no data buffer lies inside a skip interval and
\* every maximal run of skipped buffers has exactly one FIFF_DATA_SKIP marker,
\* whose value is the length of the run.
C7_SkipRunsWrittenAsMarkers ==
    (DoSkips(cfg, cfg.start) /\ result \in {"returned", "RuntimeError"}) =>
       /\ \A name \in DOMAIN disk :
             \A i \in 1..Len(disk[name].recs) :
                IsBuf(disk[name].recs[i]) =>
                   ~InSkip(cfg, disk[name].recs[i].first, disk[name].recs[i].last)
       /\ \A i, j \in SaveBuffers :
             MaximalSkipRun(i, j) =>
                /\ Cardinality(SkipMarkersAt(FirstOf(cfg, cfg.start, j + 1))) = 1
                /\ \A p \in SkipMarkersAt(FirstOf(cfg, cfg.start, j + 1)) :
                      disk[p[1]].recs[p[2]].n = j - i + 1

\* C8: every call of write that returned wrote a data buffer and moved start
\* forward, or left start at stop; and the save does not end with the
\* 'Exceeded maximum number of splits' error after a call that left start
\* where it was.
C8_WriteAdvancesStart ==
    /\ \A i \in 1..Len(output_fnames) :
          \/ BufRecs(OutFile(i)) # <<>> /\ OutFile(i).new_start > OutFile(i).start
          \/ OutFile(i).new_start = cfg.stop
    /\ result = "RuntimeError" =>
          \A i \in 1..Len(output_fnames) :
             OutFile(i).new_start > OutFile(i).start

\* C9: the 'Exceeded maximum number of splits' error is raised only when data
\* are left over after MAX_N_SPLITS files: a save whose MAX_N_SPLITS-th write
\* returned no next split does not raise.
C9_RaisesOnlyWhenDataLeft ==
    result = "RuntimeError" => (is_next_split /\ wstart < cfg.stop)

\* A data buffer that holds a sample of a skip interval.
WritesSkipAsData(f, i) ==
    /\ WrittenOk(f, i)
    /\ \E s \in cfg.skips : f.recs[i].first < s[2] /\ s[1] < f.recs[i].last

\* C10: the 'will be written as zeroes' warning is given at most once in a
\* save, and it has been given whenever a file of the save holds a data buffer
\* with samples of a skip interval.
C10_WarnsWhenSkipWrittenAsData ==
    /\ warnings <= 1
    /\ (\E name \in DOMAIN disk :
           \E i \in 1..Len(disk[name].recs) : WritesSkipAsData(disk[name], i))
          => warnings >= 1

\* ---------------------------------------------------------------- C11
\* The buffers of a file's range that are not skipped, and the first of them.
UnskippedBuffers(c, start) ==
    {k \in 0..(NBuffers(c, start) - 1) :
        ~(DoSkips(c, start) /\ InSkip(c, FirstOf(c, start, k), LastOf(c, start, k)))}

FirstWrittenBuffer(c, start) ==
    CHOOSE k \in UnskippedBuffers(c, start) :
        \A j \in UnskippedBuffers(c, start) : k <= j

\* A buffer is serialized into the file: there is a buffer that is not skipped,
\* and the first of them is not dropped as a short last buffer.
SerializesBuffer(c, start) ==
    /\ UnskippedBuffers(c, start) # {}
    /\ ~DropsBuffer(c, start, FirstOf(c, start, FirstWrittenBuffer(c, start)),
                    LastOf(c, start, FirstWrittenBuffer(c, start)))

OneBufferBytes(c, start) ==
    BufferBytes(LastOf(c, start, FirstWrittenBuffer(c, start))
                - FirstOf(c, start, FirstWrittenBuffer(c, start)))

\* The bytes of the header and metadata of a file, from the tags it holds.
HeaderOf(f) ==
    MetaBytes + Len(f.first_samp_tag) * IntTagBytes + Len(f.prev_ref) * RefBlockBytes

HeaderAloneTooLarge(f) == HeaderOf(f) > cfg.split_size

OneBufferTooLarge(f) ==
    /\ SerializesBuffer(cfg, f.start)
    /\ HeaderOf(f) + OneBufferBytes(cfg, f.start) + NEXT_FILE_BUFFER > cfg.split_size

\* C11: whenever, for a file the save has written to, the header and metadata
\* plus the first buffer serialized into the file plus _NEXT_FILE_BUFFER exceed
\* split_size, or the header and metadata alone exceed split_size, the save has
\* failed with a ValueError and is not reported as successful.
\* (Stated of each file in the state its write leaves: the file of the part
\* written last.)
C11_TooSmallSplitSizeRaises ==
    \A name \in DOMAIN disk :
        LET f == disk[name]
        IN (/\ f.part >= 0
            /\ f.part >= part_idx - 1
            /\ (HeaderAloneTooLarge(f) \/ OneBufferTooLarge(f)))
           => result = "ValueError"

\* A later part fails: part 0 was written, and the back reference makes the
\* header of the next part too large for one buffer.
C11_Witness ==
    /\ result = "ValueError"
    /\ Len(output_fnames) >= 1
    /\ \E name \in DOMAIN disk :
          /\ disk[name].part >= 1
          /\ ~HeaderAloneTooLarge(disk[name])
          /\ OneBufferTooLarge(disk[name])

\* The header of a later part alone exceeds split_size.
C11_HeaderCase ==
    /\ result = "ValueError"
    /\ \E name \in DOMAIN disk :
          disk[name].part >= 1 /\ HeaderAloneTooLarge(disk[name])

\* ======================================================================
\* The raw container (BaseRaw): per-file sample ranges, the preloaded buffer
\* or reads on demand, crop, append, resample, load_data.  One behaviour of
\* RawSpec constructs a container and applies up to MaxOps operations to it.
\* ======================================================================
MaxFiles == 2       \* constituent files of a constructed container
MaxLen == 3         \* samples of a constituent file
MaxFirst == 1       \* first sample of a constituent file
MaxOps == 2         \* operations applied in one behaviour
MaxAppend == 2      \* containers passed to one append
RawNchan == 2       \* info["nchan"]
InitSfreq == 2      \* info["sfreq"] at construction

\* A datum of one time sample: the file it comes from, its sample number in
\* that file, and how many times it was resampled.  'mem' is an array given
\* to the constructor, 'zeros' an entry of a freshly allocated buffer that
\* nothing was written to.
Sample(file, samp, gen) == [file |-> file, samp |-> samp, gen |-> gen]

\* File identities are pairs <<name, number>>.
NoFile == <<"None", 0>>

Zero == Sample(<<"zeros", 0>>, 0, 0)

\* self._data: rows is the number of channel rows, cols the time axis.
Buffer(rows, cols) == [rows |-> rows, cols |-> cols]

NoData == Buffer(0, <<>>)

RECURSIVE SumSeq(_)
SumSeq(s) == IF s = <<>> THEN 0 ELSE s[1] + SumSeq(Tail(s))

Min(a, b) == IF a <= b THEN a ELSE b

Max(a, b) == IF a >= b THEN a ELSE b

\* ------------------------------------------------------ sample bookkeeping
RawLengths(r) ==
    [i \in 1..Len(r._first_samps) |-> r._last_samps[i] - r._first_samps[i] + 1]

FirstSamp(r) == r._cropped_samp

LastSamp(r) == FirstSamp(r) + SumSeq(RawLengths(r)) - 1

NTimes(r) == LastSamp(r) - FirstSamp(r) + 1

\* cumul_lens = np.cumsum([0] + _raw_lengths): file fi (counted from 1) holds
\* the samples CumulLens(r)[fi] .. CumulLens(r)[fi + 1] - 1 of the container.
RECURSIVE Cumsum(_, _)
Cumsum(s, acc) ==
    IF s = <<>> THEN <<acc>> ELSE <<acc>> \o Cumsum(Tail(s), acc + s[1])

CumulLens(r) == Cumsum(RawLengths(r), 0)

\* ----------------------------------------------------------- _read_segment
\* A datum that an operator was applied to remembers the operators, in the
\* order of application.
Applied(s, m) ==
    [file |-> s.file, samp |-> s.samp, gen |-> s.gen,
     mult |-> (IF "mult" \in DOMAIN s THEN s.mult ELSE <<>>) \o <<m>>]

\* What the per-file reader delivers for a stored value: the value times cals
\* (the datum itself), or mult applied to it.
Scaled(s, mult) == IF mult = <<>> THEN s ELSE Applied(s, mult)

\* mult before calibration: comp, projector @ comp, projector, or None (<<>>).
ReadMult(r) ==
    (IF r._projector # "None" THEN <<r._projector>> ELSE <<>>)
    \o (IF r._comp # "None" THEN <<r._comp>> ELSE <<>>)

\* (variant) the calibration vector is passed along with the multiplier.
ReadSetupBoth(r, idx) ==
    [cals |-> <<[k \in 1..Len(idx) |-> r._cals[idx[k] + 1]]>>,
     mult |-> IF ReadMult(r) = <<>> THEN <<>> ELSE <<ReadMult(r) \o <<"cals">>>>]

\* 'set up cals and mult': what every reader call of one _read_segment is
\* given.  None is <<>>, a value v is <<v>>.
ReadSetup(r, idx) ==
    IF ReadMult(r) = <<>>
    THEN [cals |-> <<[k \in 1..Len(idx) |-> r._cals[idx[k] + 1]]>>, mult |-> <<>>]
    ELSE [cals |-> <<>>, mult |-> <<ReadMult(r) \o <<"cals">>>>]

\* The per-file reader fills its output slice with the samples start .. stop - 1
\* of the file that _raw_extras[fi] describes.
ReadSegmentFile(r, fi, start, stop) ==
    [k \in 1..(stop - start) |->
        Scaled(Sample(r._raw_extras[fi], start + k - 1, 0), ReadMult(r))]

\* files_used = (start < cumul_lens[1:]) & (stop - 1 >= cumul_lens[:-1])
FilesUsed(cumul_lens, start, stop) ==
    {fi \in 1..(Len(cumul_lens) - 1) :
        start < cumul_lens[fi + 1] /\ stop - 1 >= cumul_lens[fi]}

\* (variant) every file is read from its first sample.
StartFileNoOffset(r, cumul_lens, fi, start, offset) == r._first_samps[fi]

\* start_file of the loop body.
StartFile(r, cumul_lens, fi, start, offset) ==
    IF offset = 0
    THEN r._first_samps[fi] + start - cumul_lens[fi]
    ELSE r._first_samps[fi]

\* (variant) the window is not clipped to the end of the file.
StopFileUnclipped(r, cumul_lens, fi, stop) ==
    stop - cumul_lens[fi] + r._first_samps[fi]

StopFile(r, cumul_lens, fi, stop) ==
    Min(stop - cumul_lens[fi] + r._first_samps[fi], r._last_samps[fi] + 1)

\* data[:, this_sl] = what the reader delivers
Fill(data, offset, chunk) ==
    [i \in 1..Len(data) |->
        IF i > offset /\ i <= offset + Len(chunk) THEN chunk[i - offset] ELSE data[i]]

\* One call of the per-file reader and the output slice it fills.
ReaderCall(fi, start_file, stop_file, offset) ==
    [fi |-> fi, start |-> start_file, stop |-> stop_file, lo |-> offset,
     hi |-> offset + (stop_file - start_file)]

\* The loop over np.nonzero(files_used)[0], from file fi on.  st holds offset,
\* the output buffer, the reader calls made, and an error raised.
RECURSIVE ReadLoop(_, _, _, _, _, _)
ReadLoop(r, cumul_lens, start, stop, fi, st) ==
    IF fi > Len(r._first_samps) THEN st
    ELSE IF fi \notin FilesUsed(cumul_lens, start, stop)
    THEN ReadLoop(r, cumul_lens, start, stop, fi + 1, st)
    ELSE
      LET start_file == StartFile(r, cumul_lens, fi, start, st.offset)
          stop_file == StopFile(r, cumul_lens, fi, stop)
          n_read == stop_file - start_file
      IN
      IF start_file < r._first_samps[fi] \/ stop_file < start_file
      THEN [st EXCEPT !.err = "ValueError"]
      ELSE IF r._raw_extras[fi] = NoFile
      THEN [st EXCEPT !.err = "NotImplementedError",
                      !.calls = Append(@, ReaderCall(fi, start_file, stop_file,
                                                     st.offset)
                                          @@ ReadSetup(r, st.idx))]
      ELSE ReadLoop(r, cumul_lens, start, stop, fi + 1,
                    [st EXCEPT
                       !.calls = Append(@, ReaderCall(fi, start_file, stop_file,
                                                      st.offset)
                                           @@ ReadSetup(r, st.idx)),
                       !.data = Fill(@, st.offset,
                                     ReadSegmentFile(r, fi, start_file, stop_file)),
                       !.offset = @ + n_read])

\* sel=None reads every channel: n_out = info["nchan"], idx = slice(None)
AllChannels(r) == [k \in 1..r.info.nchan |-> k - 1]

\* (variant) stop is not clipped to n_times.
ReadSegmentUnclipped(r, start, stop0, sel) ==
    IF start >= stop0
    THEN [err |-> "ValueError", offset |-> 0, calls |-> <<>>, idx |-> sel,
          data |-> <<>>]
    ELSE ReadLoop(r, CumulLens(r), start, stop0, 1,
                  [err |-> "None", offset |-> 0, calls |-> <<>>, idx |-> sel,
                   data |-> [i \in 1..(stop0 - start) |-> Zero]])

\* _read_segment(start, stop, sel): stop is clipped to n_times, an empty range
\* raises, the output buffer of shape (n_out, stop - start) is allocated with
\* zeros and filled by the per-file readers.
ReadSegment(r, start, stop0, sel) ==
    LET stop == Min(stop0, NTimes(r))
    IN
    IF start >= stop
    THEN [err |-> "ValueError", offset |-> 0, calls |-> <<>>, idx |-> sel,
          data |-> <<>>]
    ELSE ReadLoop(r, CumulLens(r), start, stop, 1,
                  [err |-> "None", offset |-> 0, calls |-> <<>>, idx |-> sel,
                   data |-> [i \in 1..(stop - start) |-> Zero]])

\* _read_segment() with start=0, stop=None, sel=None
ReadSegmentAll(r) == ReadSegment(r, 0, NTimes(r), AllChannels(r))

\* ------------------------------------------------------ load_data, __init__
\* _preload_data
PreloadData(r) ==
    [r EXCEPT !._data = Buffer(Len(ReadSegmentAll(r).idx), ReadSegmentAll(r).data),
              !.preload = TRUE,
              !._comp = "None"]

\* The outcome of an operation: the container it leaves and the error raised.
Outcome(r, err) == [raw |-> r, err |-> err]

\* load_data
LoadData(r) ==
    IF r.preload THEN Outcome(r, "None")
    ELSE IF ReadSegmentAll(r).err # "None" THEN Outcome(r, ReadSegmentAll(r).err)
    ELSE Outcome(PreloadData(r), "None")

\* BaseRaw.__init__ of a reader: one entry per file in each per-file sequence.
Info0 ==
    [nchan |-> RawNchan, sfreq |-> InitSfreq,
     ch_names |-> [k \in 1..RawNchan |-> k], bads |-> <<>>,
     chs |-> [k \in 1..RawNchan |-> 1], projs |-> <<>>, comp_grade |-> 0]

Construct(files, first_samps, last_samps, preload, info) ==
    LET r == [_first_samps |-> first_samps,
              _last_samps |-> last_samps,
              filenames |-> files,
              _raw_extras |-> files,
              _read_picks |-> [i \in 1..Len(files) |-> [k \in 1..info.nchan |-> k - 1]],
              _cropped_samp |-> first_samps[1],
              preload |-> FALSE,
              _data |-> NoData,
              _comp |-> "None",
              _read_comp_grade |-> info.comp_grade,
              _projector |-> "None",
              _cals |-> info.chs,
              annotations |-> <<>>,
              info |-> info]
    IN IF preload THEN PreloadData(r) ELSE r

\* BaseRaw.__init__ with an ndarray as preload: one nameless file.
ConstructArray(first_samp, n, info) ==
    [Construct(<<NoFile>>, <<first_samp>>, <<first_samp + n - 1>>, FALSE, info)
     EXCEPT !._data = Buffer(info.nchan, [k \in 1..n |-> Sample(<<"mem", 0>>, k - 1, 0)]),
            !.preload = TRUE]

\* ------------------------------------------------------------ annotations
\* Times in seconds are fractions <<numerator, denominator>> in lowest terms.
RECURSIVE GCD(_, _)
GCD(a, b) == IF b = 0 THEN a ELSE GCD(b, a % b)

Time(num, den) ==
    LET g == GCD(IF num < 0 THEN -num ELSE num, den)
    IN <<num \div g, den \div g>>

TimeAdd(a, b) == Time(a[1] * b[2] + b[1] * a[2], a[2] * b[2])

TimeSub(a, b) == Time(a[1] * b[2] - b[1] * a[2], a[2] * b[2])

TimeLeq(a, b) == a[1] * b[2] <= b[1] * a[2]

\* An annotation; its onset counts from the first sample of the container.
Annot(onset, duration, description) ==
    [onset |-> onset, duration |-> duration, description |-> description]

ShiftAnnotations(annots, t) ==
    [i \in 1..Len(annots) |-> [annots[i] EXCEPT !.onset = TimeAdd(@, t)]]

InDataRange(r, a) ==
    /\ TimeLeq(Time(0, 1), TimeAdd(a.onset, a.duration))
    /\ TimeLeq(a.onset, Time(NTimes(r), r.info.sfreq))

\* set_annotations: annotations outside of the data range are omitted.
SetAnnotations(r, annots) ==
    [r EXCEPT !.annotations = SelectSeq(annots, LAMBDA a : InDataRange(r, a))]

\* _combine_annotations: those of the second container follow, moved to where
\* its data starts in the first (one_n_samples / sfreq).
CombineAnnotations(one, two, one_n_samples, sfreq) ==
    one \o ShiftAnnotations(two, Time(one_n_samples, sfreq))

\* -------------------------------------------------------------------- crop
RECURSIVE Pick(_, _, _)
Pick(s, keep, i) ==
    IF i > Len(s) THEN <<>>
    ELSE (IF i \in keep THEN <<s[i]>> ELSE <<>>) \o Pick(s, keep, i + 1)

\* keepers = np.where((smin < cumul_lens[1:]) & (smax >= cumul_lens[:-1]))[0]
Keepers(r, smin, smax) ==
    {fi \in 1..Len(r._first_samps) :
        smin < CumulLens(r)[fi + 1] /\ smax >= CumulLens(r)[fi]}

SetMin(S) == CHOOSE x \in S : \A y \in S : x <= y

\* (variant) keepers[0] in place of keepers[-1]
SetMaxAsMin(S) == CHOOSE x \in S : \A y \in S : x <= y

SetMax(S) == CHOOSE x \in S : \A y \in S : x >= y

\* (variant) the list of file names is not narrowed.
CropFilenamesAll(r, keepers) == r.filenames

\* self.filenames = [self.filenames[ri] for ri in keepers]
CropFilenames(r, keepers) == Pick(r.filenames, keepers, 1)

\* (variant) the samples of the dropped files are not taken off the shift.
CropFirstShiftWhole(cumul_lens, keepers, smin) == smin

\* self._first_samps[0] += smin - cumul_lens[keepers[0]]
CropFirstShift(cumul_lens, keepers, smin) == smin - cumul_lens[SetMin(keepers)]

\* crop to the samples smin .. smax (what _time_mask selects for tmin, tmax);
\* tmin > tmax raises.
Crop(r, smin, smax) ==
    IF smin > smax THEN Outcome(r, "ValueError")
    ELSE
      LET keepers == Keepers(r, smin, smax)
          cumul_lens == CumulLens(r)
          firsts == Pick(r._first_samps, keepers, 1)
          lasts == Pick(r._last_samps, keepers, 1)
          cropped ==
            [r EXCEPT
               !._cropped_samp = @ + smin,
               !._first_samps =
                   [firsts EXCEPT ![1] = @ + CropFirstShift(cumul_lens, keepers, smin)],
               !._last_samps =
                   [lasts EXCEPT ![Len(lasts)] =
                       @ - (cumul_lens[SetMax(keepers) + 1] - 1 - smax)],
               !._read_picks = Pick(r._read_picks, keepers, 1),
               !._raw_extras = Pick(r._raw_extras, keepers, 1),
               !.filenames = CropFilenames(r, keepers),
               !._data = IF r.preload
                         THEN Buffer(@.rows, SubSeq(@.cols, smin + 1, smax + 1))
                         ELSE @]
      IN Outcome(SetAnnotations(cropped,
                                ShiftAnnotations(r.annotations,
                                                 Time(-smin, r.info.sfreq))),
                 "None")

\* ------------------------------------------------ _check_raw_compatibility
SeqToSet(s) == {s[i] : i \in DOMAIN s}

\* (variant) the calibration vectors are not compared.
RawMismatchNoCals(a, b) ==
    \/ b.info.nchan # a.info.nchan
    \/ b.info.sfreq # a.info.sfreq
    \/ SeqToSet(a.info.bads) # SeqToSet(b.info.bads)
    \/ SeqToSet(a.info.ch_names) # SeqToSet(b.info.ch_names)
    \/ Len(a.info.projs) # Len(b.info.projs)
    \/ \E i \in 1..Len(a.info.projs) : a.info.projs[i] # b.info.projs[i]

\* One of the checks of raw[ri] = b against raw[0] = a raises.
RawMismatch(a, b) ==
    \/ b.info.nchan # a.info.nchan
    \/ b.info.sfreq # a.info.sfreq
    \/ SeqToSet(a.info.bads) # SeqToSet(b.info.bads)
    \/ SeqToSet(a.info.ch_names) # SeqToSet(b.info.ch_names)
    \/ b._cals # a._cals
    \/ Len(a.info.projs) # Len(b.info.projs)
    \/ \E i \in 1..Len(a.info.projs) : a.info.projs[i] # b.info.projs[i]

CheckRawCompatibility(all_raws) ==
    IF \E ri \in 2..Len(all_raws) : RawMismatch(all_raws[1], all_raws[ri])
    THEN "ValueError" ELSE "None"

\* ------------------------------------------------------------------ append
\* c_ns = np.cumsum([rr.n_times for rr in ([self] + raws)]), with a leading 0:
\* AppendOffsets[i] is where the data of the i-th container starts.
AppendOffsets(all_raws) ==
    [i \in 1..(Len(all_raws) + 1) |->
        SumSeq([j \in 1..(i - 1) |-> NTimes(all_raws[j])])]

\* The data of one container as append obtains it: its buffer, or a read of
\* all of it.
DataOf(r) == IF r.preload THEN r._data.cols ELSE ReadSegmentAll(r).data

\* _data[:, c_ns[ri]:c_ns[ri + 1]] = ... for self and then each of raws.
RECURSIVE ConcatData(_, _, _)
ConcatData(all_raws, i, data) ==
    IF i > Len(all_raws) THEN data
    ELSE ConcatData(all_raws, i + 1,
                    Fill(data, AppendOffsets(all_raws)[i], DataOf(all_raws[i])))

\* An error of the reads the concatenation makes.
ConcatErr(all_raws) ==
    IF \E i \in 1..Len(all_raws) :
          ~all_raws[i].preload /\ ReadSegmentAll(all_raws[i]).err # "None"
    THEN "NotImplementedError" ELSE "None"

\* The preload the concatenation works with: inferred when not given.
AppendPreload(r, raws, preload) ==
    IF preload = "None"
    THEN r.preload /\ \A i \in 1..Len(raws) : raws[i].preload
    ELSE preload = "True"

\* 'deal with preloading data first (while files are separate)'
AppendData(r, raws, preload) ==
    IF ~AppendPreload(r, raws, preload)
    THEN [r EXCEPT !._data = IF r.preload THEN NoData ELSE @,
                   !.preload = FALSE]
    ELSE LET nsamp == AppendOffsets(<<r>> \o raws)[Len(raws) + 2]
         IN [r EXCEPT
               !._data = Buffer(r.info.nchan,
                                ConcatData(<<r>> \o raws, 1,
                                           [i \in 1..nsamp |-> Zero])),
               !.preload = TRUE]

\* The for loop over raws, from raws[ri] on: st holds the container, the
\* combined annotations and edge_samps.
RECURSIVE AppendLoop(_, _, _)
AppendLoop(raws, ri, st) ==
    IF ri > Len(raws) THEN st
    ELSE
      LET r == raws[ri]
          edge == LastSamp(st.raw) - FirstSamp(st.raw) + 1
      IN AppendLoop(raws, ri + 1,
           [edge_samps |-> Append(st.edge_samps, edge),
            annotations |-> CombineAnnotations(st.annotations, r.annotations,
                                               edge, st.raw.info.sfreq),
            raw |-> [st.raw EXCEPT
                       !._first_samps = @ \o r._first_samps,
                       !._last_samps = @ \o r._last_samps,
                       !._read_picks = @ \o r._read_picks,
                       !._raw_extras = @ \o r._raw_extras,
                       !.filenames = @ \o r.filenames]])

\* (variant) only the 'BAD boundary' annotation is added at an edge.
RECURSIVE MarkEdgesBadOnly(_, _, _)
MarkEdgesBadOnly(annots, edge_samps, sfreq) ==
    IF edge_samps = <<>> THEN annots
    ELSE MarkEdgesBadOnly(annots \o <<Annot(Time(edge_samps[1], sfreq),
                                            Time(0, 1), "BAD boundary")>>,
                          Tail(edge_samps), sfreq)

\* self.annotations.append(onset, 0.0, ...) for every edge
RECURSIVE MarkEdges(_, _, _)
MarkEdges(annots, edge_samps, sfreq) ==
    IF edge_samps = <<>> THEN annots
    ELSE MarkEdges(annots \o <<Annot(Time(edge_samps[1], sfreq), Time(0, 1),
                                     "BAD boundary"),
                               Annot(Time(edge_samps[1], sfreq), Time(0, 1),
                                     "EDGE boundary")>>,
                   Tail(edge_samps), sfreq)

SameLengths(r) ==
    /\ Len(r._first_samps) = Len(r._last_samps)
    /\ Len(r._last_samps) = Len(r._raw_extras)
    /\ Len(r._raw_extras) = Len(r.filenames)
    /\ Len(r.filenames) = Len(r._read_picks)

\* append(raws, preload)
AppendRaws(r, raws, preload) ==
    IF CheckRawCompatibility(<<r>> \o raws) # "None"
    THEN Outcome(r, "ValueError")
    ELSE IF AppendPreload(r, raws, preload) /\ ConcatErr(<<r>> \o raws) # "None"
    THEN Outcome(r, ConcatErr(<<r>> \o raws))
    ELSE
      LET st == AppendLoop(raws, 1,
                           [edge_samps |-> <<>>, annotations |-> r.annotations,
                            raw |-> AppendData(r, raws, preload)])
          combined == SetAnnotations(st.raw, st.annotations)
          marked == [combined EXCEPT
                       !.annotations = MarkEdges(@, st.edge_samps,
                                                 combined.info.sfreq)]
      IN IF SameLengths(marked) THEN Outcome(marked, "None")
         ELSE Outcome(marked, "RuntimeError")

\* ---------------------------------------------------------------- resample
\* round(p / q) of Python and numpy: halves go to the even neighbour (p >= 0).
RoundHalfEven(p, q) ==
    LET fl == p \div q
        twice == 2 * (p % q)
    IN IF twice < q THEN fl
       ELSE IF twice > q THEN fl + 1
       ELSE IF fl % 2 = 0 THEN fl ELSE fl + 1

\* _resamp_ratio_len: ratio = up / down, n_new = max(round(ratio * n), 1)
ResampRatioLen(up, down, n) == Max(RoundHalfEven(up * n, down), 1)

\* (variant) the last sample of a file is taken one past its end.
ResampleLastSampsPast(first_samps, n_news) ==
    [ri \in 1..Len(first_samps) |-> first_samps[ri] + n_news[ri]]

\* self._last_samps = np.array(self._first_samps) + n_news - 1
ResampleLastSamps(first_samps, n_news) ==
    [ri \in 1..Len(first_samps) |-> first_samps[ri] + n_news[ri] - 1]

\* What resampling makes of the data of one file: n_new new samples.
ResampleChunk(chunk, n_new) ==
    [k \in 1..n_new |-> Sample(chunk[1].file, k - 1, chunk[1].gen + 1)]

\* The data of file ri as resample obtains it: a slice of the buffer, or
\* get_data over the file's samples.
ChunkRead(r, ri) == ReadSegment(r, CumulLens(r)[ri], CumulLens(r)[ri + 1], <<0>>)

DataChunk(r, ri) ==
    IF r.preload
    THEN SubSeq(r._data.cols, CumulLens(r)[ri] + 1, CumulLens(r)[ri + 1])
    ELSE ChunkRead(r, ri).data

RECURSIVE ResampleData(_, _, _, _)
ResampleData(r, n_news, ri, new_data) ==
    IF ri > Len(n_news) THEN new_data
    ELSE ResampleData(r, n_news, ri + 1,
                      new_data \o ResampleChunk(DataChunk(r, ri), n_news[ri]))

\* (variant) every file takes the new length of the first file.
ResampleFirstLength(r, sfreq) ==
    IF sfreq = r.info.sfreq THEN Outcome(r, "None")
    ELSE IF ~r.preload /\ \E ri \in 1..Len(r._first_samps) : ChunkRead(r, ri).err # "None"
    THEN Outcome(r, "NotImplementedError")
    ELSE
      LET o_sfreq == r.info.sfreq
          n_news == [ri \in 1..Len(r._first_samps) |->
                        ResampRatioLen(sfreq, o_sfreq, RawLengths(r)[1])]
          first_samps == [ri \in 1..Len(r._first_samps) |->
                             RoundHalfEven(r._first_samps[ri] * sfreq, o_sfreq)]
      IN Outcome([r EXCEPT
                    !._cropped_samp = RoundHalfEven(@ * sfreq, o_sfreq),
                    !._first_samps = first_samps,
                    !._last_samps = ResampleLastSamps(first_samps, n_news),
                    !._data = Buffer(Len(r.info.ch_names),
                                     ResampleData(r, n_news, 1, <<>>)),
                    !.preload = TRUE,
                    !.info.sfreq = sfreq],
                 "None")

\* resample(sfreq)
Resample(r, sfreq) ==
    IF sfreq = r.info.sfreq THEN Outcome(r, "None")
    ELSE IF ~r.preload /\ \E ri \in 1..Len(r._first_samps) : ChunkRead(r, ri).err # "None"
    THEN Outcome(r, "NotImplementedError")
    ELSE
      LET o_sfreq == r.info.sfreq
          n_news == [ri \in 1..Len(r._first_samps) |->
                        ResampRatioLen(sfreq, o_sfreq, RawLengths(r)[ri])]
          first_samps == [ri \in 1..Len(r._first_samps) |->
                             RoundHalfEven(r._first_samps[ri] * sfreq, o_sfreq)]
      IN Outcome([r EXCEPT
                    !._cropped_samp = RoundHalfEven(@ * sfreq, o_sfreq),
                    !._first_samps = first_samps,
                    !._last_samps = ResampleLastSamps(first_samps, n_news),
                    !._data = Buffer(Len(r.info.ch_names),
                                     ResampleData(r, n_news, 1, <<>>)),
                    !.preload = TRUE,
                    !.info.sfreq = sfreq],
                 "None")

\* ---------------------------------------------------------------- indexing
\* raw[sel, start:stop]: _getitem
GetItemResult(r, sel, start, stop) ==
    IF r.preload
    THEN [err |-> "None", offset |-> 0, calls |-> <<>>, idx |-> sel,
          data |-> SubSeq(r._data.cols, start + 1, Min(stop, Len(r._data.cols)))]
    ELSE ReadSegment(r, start, stop, sel)

\* ------------------------------------------------------------- the inputs
FileName(name, i) == <<name, i>>

\* The containers a reader constructs: one to MaxFiles files, read on demand or
\* preloaded from them.
FileContainers ==
    UNION {
      {Construct([i \in 1..n |-> FileName("a", i)], firsts,
                 [i \in 1..n |-> firsts[i] + lens[i] - 1], pl, Info0) :
          firsts \in [1..n -> 0..MaxFirst], lens \in [1..n -> 1..MaxLen],
          pl \in BOOLEAN} :
      n \in 1..MaxFiles}

\* The containers constructed from an array.
ArrayContainers ==
    {ConstructArray(f, n, Info0) : f \in 0..MaxFirst, n \in 1..MaxLen}

InitContainers == FileContainers \cup ArrayContainers

\* Containers to append: two files read on demand; one preloaded file that
\* carries an annotation.
OtherB(info) ==
    Construct(<<FileName("b", 1), FileName("b", 2)>>, <<MaxFirst, 0>>,
              <<MaxFirst, 0>>, FALSE, info)

OtherC(info) ==
    [Construct(<<FileName("c", 1)>>, <<0>>, <<0>>, TRUE, info)
     EXCEPT !.annotations = <<Annot(Time(0, 1), Time(0, 1), "stim")>>]

\* The measurement information of a container that cannot be appended: the
\* compared field differs.
BadFields == {"nchan", "sfreq", "ch_names", "bads", "cals", "projs"}

BadInfo(info, field) ==
    CASE field = "nchan" -> [info EXCEPT !.nchan = @ + 1,
                                         !.ch_names = Append(@, info.nchan + 1),
                                         !.chs = Append(@, 1)]
      [] field = "sfreq" -> [info EXCEPT !.sfreq = @ + 1]
      [] field = "ch_names" -> [info EXCEPT !.ch_names[1] = 0]
      [] field = "bads" -> [info EXCEPT !.bads = Append(@, info.ch_names[1])]
      [] field = "cals" -> [info EXCEPT !.chs[1] = @ + 1]
      [] field = "projs" -> [info EXCEPT !.projs = Append(@, "ssp")]

\* A container to append, by kind: "b", "c", or "b" with a differing field.
Other(kind, info) ==
    IF kind = "b" THEN OtherB(info)
    ELSE IF kind = "c" THEN OtherC(info)
    ELSE OtherB(BadInfo(info, kind))

\* The lists passed to append: up to MaxAppend compatible containers, or one
\* incompatible container among containers read on demand.
GoodLists == UNION {[1..n -> {"b", "c"}] : n \in 1..MaxAppend}

BadLists ==
    UNION {
      {[i \in 1..n |-> IF i = k THEN bad ELSE "b"] : k \in 1..n, bad \in BadFields} :
      n \in 1..MaxAppend}

PreloadArgs == {"None", "True", "False"}

\* The arguments of append: every preload with the compatible lists.
AppendArgs == (GoodLists \X PreloadArgs) \cup (BadLists \X {"None"})

Rates == {InitSfreq \div 2, InitSfreq, InitSfreq * 2}

Selections(r) == {AllChannels(r), <<0>>}

\* ------------------------------------------------------------ the actions
OpRec(name, pre, a, b, raws, preload, out) ==
    [name |-> name, pre |-> pre, a |-> a, b |-> b, raws |-> raws,
     preload |-> preload, err |-> out.err, out |-> out]

SaveIdle ==
    /\ cfg = <<>>
    /\ part_idx = 0
    /\ is_next_split = FALSE
    /\ prev_fname = NoName
    /\ output_fnames = <<>>
    /\ wstart = 0
    /\ disk = <<>>
    /\ warnings = 0
    /\ result = "idle"

RawInit ==
    /\ SaveIdle
    /\ raw \in InitContainers
    /\ op = OpRec("init", raw, 0, 0, <<>>, "None", Outcome(raw, "None"))
    /\ nops = 0
    /\ sl = <<>>

\* An operation that raises ends the behaviour.
NextOps(out) == IF out.err = "None" THEN nops + 1 ELSE MaxOps

DoCrop ==
    /\ nops < MaxOps
    /\ \E smin, smax \in 0..(NTimes(raw) - 1) :
          LET out == Crop(raw, smin, smax)
          IN /\ raw' = out.raw
             /\ op' = OpRec("crop", raw, smin, smax, <<>>, "None", out)
             /\ nops' = NextOps(out)
    /\ UNCHANGED savevars

DoAppend ==
    /\ nops < MaxOps
    /\ \E args \in AppendArgs :
          LET raws == [i \in 1..Len(args[1]) |-> Other(args[1][i], raw.info)]
              out == AppendRaws(raw, raws, args[2])
          IN /\ raw' = out.raw
             /\ op' = OpRec("append", raw, 0, 0, raws, args[2], out)
             /\ nops' = NextOps(out)
    /\ UNCHANGED savevars

DoResample ==
    /\ nops < MaxOps
    /\ \E sfreq \in Rates :
          LET out == Resample(raw, sfreq)
          IN /\ raw' = out.raw
             /\ op' = OpRec("resample", raw, sfreq, 0, <<>>, "None", out)
             /\ nops' = NextOps(out)
    /\ UNCHANGED savevars

DoLoadData ==
    /\ nops < MaxOps
    /\ LET out == LoadData(raw)
       IN /\ raw' = out.raw
          /\ op' = OpRec("load_data", raw, 0, 0, <<>>, "None", out)
          /\ nops' = NextOps(out)
    /\ UNCHANGED savevars

\* raw[sel, start:stop]; the behaviour ends with the access.
DoGetItem ==
    /\ nops < MaxOps
    /\ \E sel \in Selections(raw), start \in 0..NTimes(raw),
          stop \in 0..(NTimes(raw) + 1) :
          /\ start <= stop
          /\ op' = OpRec("getitem", raw, start, stop, <<>>, "None",
                         GetItemResult(raw, sel, start, stop))
    /\ nops' = MaxOps
    /\ UNCHANGED <<raw, savevars>>

RawNext == DoCrop \/ DoAppend \/ DoResample \/ DoLoadData \/ DoGetItem

RawSpec == RawInit /\ [][RawNext]_vars

\* ---------------------------------------------------------------- C12
\* The last operation was an indexed access that went to the segment reader
\* with 0 <= start < stop <= n_times, on a container all of whose files can
\* be read.
SegmentRead ==
    /\ op.name = "getitem"
    /\ ~op.pre.preload
    /\ op.a < op.b
    /\ op.b <= NTimes(op.pre)
    /\ NoFile \notin SeqToSet(op.pre._raw_extras)

\* The files whose cumulative sample range overlaps [start, stop).
Overlapping(r, start, stop) ==
    {fi \in 1..Len(r._first_samps) :
        \E s \in start..(stop - 1) : CumulLens(r)[fi] <= s /\ s < CumulLens(r)[fi + 1]}

\* The file that holds sample s of the container.
FileOfSample(r, s) ==
    CHOOSE fi \in 1..Len(r._first_samps) :
        CumulLens(r)[fi] <= s /\ s < CumulLens(r)[fi + 1]

\* The datum at sample s of the container, from its files.
FileDatum(r, s) ==
    Sample(r._raw_extras[FileOfSample(r, s)],
           r._first_samps[FileOfSample(r, s)] + s - CumulLens(r)[FileOfSample(r, s)],
           0)

\* C12: _read_segment over [start, stop) calls the per-file reader exactly
\* for the files overlapping [start, stop), in file order; every window lies
\* within the file's samples; sample s is read from its file at local sample
\* first_samps[fi] + s - cumul_lens[fi]; the output slices start at 0, follow
\* each other without gap or overlap, and end at stop - start.
C12_ReadSegmentWindows ==
    SegmentRead =>
      LET r == op.pre
          calls == op.out.calls
          n == Len(calls)
      IN /\ op.out.err = "None"
         /\ {calls[i].fi : i \in 1..n} = Overlapping(r, op.a, op.b)
         /\ \A i \in 1..(n - 1) : calls[i].fi < calls[i + 1].fi
         /\ \A i \in 1..n :
              /\ r._first_samps[calls[i].fi] <= calls[i].start
              /\ calls[i].start < calls[i].stop
              /\ calls[i].stop <= r._last_samps[calls[i].fi] + 1
              /\ calls[i].hi - calls[i].lo = calls[i].stop - calls[i].start
         /\ n >= 1
         /\ calls[1].lo = 0
         /\ \A i \in 1..(n - 1) : calls[i + 1].lo = calls[i].hi
         /\ calls[n].hi = op.b - op.a
         /\ Len(op.out.data) = op.b - op.a
         /\ \A s \in op.a..(op.b - 1) :
              /\ op.out.data[s - op.a + 1] = FileDatum(r, s)
              /\ \E i \in 1..n :
                   /\ calls[i].fi = FileOfSample(r, s)
                   /\ calls[i].start <= FileDatum(r, s).samp
                   /\ FileDatum(r, s).samp < calls[i].stop
                   /\ calls[i].lo + (FileDatum(r, s).samp - calls[i].start)
                      = s - op.a

\* A read that starts inside one file and ends inside the next.
C12_Witness ==
    /\ SegmentRead
    /\ Len(op.out.calls) = 2
    /\ op.out.calls[1].start > op.pre._first_samps[op.out.calls[1].fi]
    /\ op.out.calls[2].stop <= op.pre._last_samps[op.out.calls[2].fi]

\* ---------------------------------------------------------------- C13
\* The container can be loaded: load_data on it raises nothing.
Loadable(r) == LoadData(r).err = "None"

Windows(r) == {w \in (0..NTimes(r)) \X (0..NTimes(r)) : w[1] < w[2]}

\* C13: for 0 <= start < stop <= n_times and every channel selection, indexed
\* access to a container that is read on demand returns what the same
\* access returns after load_data (the slice [sel, start:stop] of the buffer
\* that load_data fills).
C13_PreloadedEqualsOnDemand ==
    /\ (op.name = "getitem" /\ ~op.pre.preload /\ Loadable(op.pre)
        /\ op.a < op.b /\ op.b <= NTimes(op.pre))
       => /\ op.out.err = "None"
          /\ op.out.data
             = GetItemResult(LoadData(op.pre).raw, op.out.idx, op.a, op.b).data
          /\ op.out.idx
             = GetItemResult(LoadData(op.pre).raw, op.out.idx, op.a, op.b).idx
    /\ (op.name = "load_data" /\ ~op.pre.preload /\ op.err = "None")
       => /\ raw.preload
          /\ \A w \in Windows(raw), sel \in Selections(raw) :
               /\ GetItemResult(raw, sel, w[1], w[2]).data
                  = ReadSegment(op.pre, w[1], w[2], sel).data
               /\ GetItemResult(raw, sel, w[1], w[2]).idx
                  = ReadSegment(op.pre, w[1], w[2], sel).idx

\* A container of two files is loaded after it was cropped inside both.
C13_Witness ==
    /\ op.name = "load_data"
    /\ ~op.pre.preload
    /\ op.err = "None"
    /\ Len(raw._first_samps) = 2
    /\ raw._cropped_samp > raw._first_samps[1] - 1
    /\ NTimes(raw) >= 3
    /\ nops = MaxOps

\* ---------------------------------------------------------------- C14
\* The last operation was a crop to the samples op.a .. op.b that returned.
Cropped == op.name = "crop" /\ op.err = "None"

\* C14: after a crop to [smin, smax], sample i of the container is sample
\* smin + i of the container before: read on demand it resolves to the same
\* file and file-local sample, preloaded the buffer is the columns smin .. smax
\* of the buffer before.  (Holding at every crop, it holds along any sequence
\* of crops.)
C14_CropKeepsSamples ==
    Cropped =>
      /\ raw.preload = op.pre.preload
      /\ NTimes(raw) = op.b - op.a + 1
      /\ ~op.pre.preload =>
           \A i \in 0..(op.b - op.a) :
              FileDatum(raw, i) = FileDatum(op.pre, op.a + i)
      /\ (~op.pre.preload /\ NoFile \notin SeqToSet(op.pre._raw_extras)) =>
           ReadSegmentAll(raw).data
           = ReadSegment(op.pre, op.a, op.b + 1, AllChannels(op.pre)).data
      /\ op.pre.preload =>
           raw._data = Buffer(op.pre._data.rows,
                              [i \in 1..(op.b - op.a + 1) |->
                                  op.pre._data.cols[op.a + i]])

\* A second crop, of a container read on demand whose first file an earlier
\* crop dropped.
C14_Witness ==
    /\ Cropped
    /\ nops = MaxOps
    /\ ~op.pre.preload
    /\ op.pre.info.sfreq = InitSfreq
    /\ op.pre._cropped_samp # op.pre._first_samps[1]
    /\ op.a > 0
    /\ op.b > op.a

\* ---------------------------------------------------------------- C15
\* The files kept by the last crop, as positions in the lists before it.
KeptFiles == Overlapping(op.pre, op.a, op.b + 1)

\* C15: after a crop to [smin, smax] the per-file lists hold exactly the files
\* overlapping [smin, smax], in their order; first_samp grew by smin; n_times
\* is smax - smin + 1; the first kept file starts and the last kept file ends
\* further in by the samples cut from them, the other ends are unchanged.
C15_CropBookkeeping ==
    Cropped =>
      LET k0 == SetMin(KeptFiles)
          k1 == SetMax(KeptFiles)
          n == Cardinality(KeptFiles)
          cut_front == op.a - CumulLens(op.pre)[k0]
          cut_back == CumulLens(op.pre)[k1 + 1] - 1 - op.b
      IN /\ Len(raw.filenames) = n
         /\ Len(raw._first_samps) = n
         /\ Len(raw._last_samps) = n
         /\ \A j \in 1..n :
              /\ j + k0 - 1 \in KeptFiles
              /\ raw.filenames[j] = op.pre.filenames[j + k0 - 1]
              /\ raw._raw_extras[j] = op.pre._raw_extras[j + k0 - 1]
              /\ raw._read_picks[j] = op.pre._read_picks[j + k0 - 1]
              /\ raw._first_samps[j]
                 = op.pre._first_samps[j + k0 - 1] + (IF j = 1 THEN cut_front ELSE 0)
              /\ raw._last_samps[j]
                 = op.pre._last_samps[j + k0 - 1] - (IF j = n THEN cut_back ELSE 0)
         /\ cut_front >= 0
         /\ cut_back >= 0
         /\ FirstSamp(raw) = FirstSamp(op.pre) + op.a
         /\ NTimes(raw) = op.b - op.a + 1

\* A crop of a container of four files that drops a file at each end and
\* cuts into the first file kept.
C15_Witness ==
    /\ Cropped
    /\ Len(op.pre.filenames) >= 4
    /\ SetMin(KeptFiles) > 1
    /\ SetMax(KeptFiles) < Len(op.pre.filenames)
    /\ Cardinality(KeptFiles) >= 2
    /\ op.a > CumulLens(op.pre)[SetMin(KeptFiles)]

\* ---------------------------------------------------------------- C16
\* C16: in every state reached by crop, append, resample and load_data the
\* five per-file sequences _first_samps, _last_samps, filenames, _raw_extras
\* and _read_picks have the same length.
C16_PerFileSequencesSameLength ==
    /\ Len(raw._first_samps) = Len(raw._last_samps)
    /\ Len(raw._first_samps) = Len(raw.filenames)
    /\ Len(raw._first_samps) = Len(raw._raw_extras)
    /\ Len(raw._first_samps) = Len(raw._read_picks)

\* Files were appended, and then some were dropped by a crop.
C16_Witness ==
    /\ Cropped
    /\ Len(op.pre.filenames) >= 4
    /\ Len(raw.filenames) = 2
    /\ raw.filenames[1][1] # raw.filenames[2][1]

\* ---------------------------------------------------------------- C17
\* C17: in every state reached by crop, append, resample and load_data every
\* file holds at least one sample, n_times is the sum of the per-file
\* lengths, and the buffer of a preloaded container has shape (nchan, n_times).
C17_LengthsAndBufferShape ==
    /\ \A i \in 1..Len(raw._first_samps) : raw._last_samps[i] >= raw._first_samps[i]
    /\ NTimes(raw) = SumSeq([i \in 1..Len(raw._first_samps) |->
                                raw._last_samps[i] - raw._first_samps[i] + 1])
    /\ raw.preload =>
         /\ raw._data.rows = raw.info.nchan
         /\ Len(raw._data.cols) = NTimes(raw)

\* A one-sample file was resampled to half the rate, after an append.
C17_Witness ==
    /\ op.name = "resample"
    /\ op.err = "None"
    /\ op.a < op.pre.info.sfreq
    /\ Len(op.pre.filenames) >= 3
    /\ \E i \in 1..Len(op.pre.filenames) :
          op.pre._last_samps[i] = op.pre._first_samps[i]
    /\ raw.preload

\* ---------------------------------------------------------------- C18
\* The last operation was an append that returned.
Appended == op.name = "append" /\ op.err = "None"

\* The container appended to, followed by the containers appended.
Parts == <<op.pre>> \o op.raws

\* The samples of a container can be obtained: from its buffer, or by a read.
Readable(r) == r.preload \/ ReadSegmentAll(r).err = "None"

RECURSIVE ConcatSamples(_, _)
ConcatSamples(parts, i) ==
    IF i > Len(parts) THEN <<>>
    ELSE DataOf(parts[i]) \o ConcatSamples(parts, i + 1)

\* C18: appending containers to A yields a container whose samples are A's
\* samples followed by the samples of each appended container, in list order
\* (so n1 + n2 + ... samples), both when the result is preloaded and when it
\* is read on demand.
C18_AppendConcatenatesSamples ==
    (Appended /\ \A i \in 1..Len(Parts) : Readable(Parts[i])) =>
      /\ NTimes(raw) = SumSeq([i \in 1..Len(Parts) |-> NTimes(Parts[i])])
      /\ raw.preload => raw._data.cols = ConcatSamples(Parts, 1)
      /\ ~raw.preload =>
           /\ ReadSegmentAll(raw).err = "None"
           /\ ReadSegmentAll(raw).data = ConcatSamples(Parts, 1)

\* ---------------------------------------------------------------- C19
Boundaries == {"BAD boundary", "EDGE boundary"}

\* How many annotations of a sequence are a boundary annotation.
NumBoundary(annots) ==
    Cardinality({i \in DOMAIN annots : annots[i].description \in Boundaries})

\* How many annotations of a sequence are the annotation a.
CountAnn(annots, a) == Cardinality({i \in DOMAIN annots : annots[i] = a})

\* The number of samples of everything before the j-th appended container.
Accumulated(j) == SumSeq([i \in 1..j |-> NTimes(Parts[i])])

\* The boundary annotations the parts brought with them that lie at time t
\* of the result.
Brought(t, d) ==
    SumSeq([i \in 1..Len(Parts) |->
               CountAnn(Parts[i].annotations,
                        Annot(TimeSub(t, Time(Accumulated(i - 1), raw.info.sfreq)),
                              Time(0, 1), d))])

\* C19: append adds, for each appended container, exactly one 'BAD boundary'
\* and one 'EDGE boundary' annotation of duration zero at the time of the
\* accumulated sample count of everything before that container; appending k
\* containers adds exactly 2k boundary annotations.
C19_AppendMarksBoundaries ==
    Appended =>
      /\ NumBoundary(raw.annotations)
         = SumSeq([i \in 1..Len(Parts) |-> NumBoundary(Parts[i].annotations)])
           + 2 * Len(op.raws)
      /\ Len(raw.annotations)
         = SumSeq([i \in 1..Len(Parts) |-> Len(Parts[i].annotations)])
           + 2 * Len(op.raws)
      /\ \A j \in 1..Len(op.raws) : \A d \in Boundaries :
            LET t == Time(Accumulated(j), raw.info.sfreq)
            IN CountAnn(raw.annotations, Annot(t, Time(0, 1), d))
               = Brought(t, d) + 1

\* Two containers were appended to a container that had been appended to
\* before.
C19_Witness ==
    /\ Appended
    /\ nops = MaxOps
    /\ Len(op.raws) = 2
    /\ NumBoundary(op.pre.annotations) = 2
    /\ NumBoundary(raw.annotations) = 6
    /\ NTimes(op.raws[1]) = 2

\* ---------------------------------------------------------------- C20
\* Container b differs from the target a in one of the compared properties.
Differs(a, b) ==
    \/ a.info.nchan # b.info.nchan
    \/ a.info.sfreq # b.info.sfreq
    \/ {a.info.ch_names[i] : i \in DOMAIN a.info.ch_names}
       # {b.info.ch_names[i] : i \in DOMAIN b.info.ch_names}
    \/ {a.info.bads[i] : i \in DOMAIN a.info.bads}
       # {b.info.bads[i] : i \in DOMAIN b.info.bads}
    \/ a._cals # b._cals
    \/ a.info.projs # b.info.projs

\* C20: when a container passed to append differs from the target in channel
\* count, sampling rate, set of channel names, set of bad channels,
\* calibration vector or projectors, append raises and the target is what it
\* was before the call (sample ranges, file list, buffer, preload flag,
\* annotations and all other fields).
C20_IncompatibleAppendRaises ==
    (op.name = "append" /\ \E i \in 1..Len(op.raws) : Differs(op.pre, op.raws[i])) =>
      /\ op.err = "ValueError"
      /\ raw = op.pre
      /\ raw._first_samps = op.pre._first_samps
      /\ raw._last_samps = op.pre._last_samps
      /\ raw.filenames = op.pre.filenames
      /\ raw._data = op.pre._data
      /\ raw.preload = op.pre.preload
      /\ raw.annotations = op.pre.annotations

\* The second of two containers passed differs from the target in the
\* calibration vector only; the target is preloaded and has annotations.
C20_Witness ==
    /\ op.name = "append"
    /\ op.err = "ValueError"
    /\ Len(op.raws) = 2
    /\ ~Differs(op.pre, op.raws[1])
    /\ op.raws[2]._cals # op.pre._cals
    /\ op.raws[2].info.nchan = op.pre.info.nchan
    /\ op.pre.preload
    /\ op.pre.annotations # <<>>
    /\ raw = op.pre

\* ======================================================================
\* Access to the data of a container: an integer time index, _read_segment
\* called directly, and get_data with rejection by annotation.  One behaviour
\* of AccessSpec constructs a container and makes one access.
\* ======================================================================
MaxBad == 2         \* annotations of a container that get_data is called on
MaxDur == 3         \* duration of an annotation, in samples

\* _parse_get_set_params for an integer time index: start, and the stop (<<>>
\* is None).
ParseGetSetParams(item1) ==
    [start |-> item1, stop |-> IF item1 = -1 THEN <<>> ELSE <<item1 + 1>>]

\* The positions (from 0) that the slice start:stop selects on an axis of
\* length n.
SliceIndices(n, start, stop) ==
    LET lo == IF start < 0 THEN Max(start + n, 0) ELSE Min(start, n)
        hi == IF stop = <<>> THEN n
              ELSE IF stop[1] < 0 THEN Max(stop[1] + n, 0) ELSE Min(stop[1], n)
    IN [k \in 1..(hi - lo) |-> lo + k - 1]

\* _getitem for parsed start and stop.
GetItem(r, sel, start, stop) ==
    IF r.preload
    THEN [err |-> "None", offset |-> 0, calls |-> <<>>, idx |-> sel,
          data |-> [k \in DOMAIN SliceIndices(Len(r._data.cols), start, stop) |->
                       r._data.cols[SliceIndices(Len(r._data.cols), start, stop)[k] + 1]]]
    ELSE ReadSegment(r, start, IF stop = <<>> THEN NTimes(r) ELSE stop[1], sel)

\* The descriptions in use that start with 'bad', whatever the case.
BadDescriptions == {"BAD boundary", "BAD_seg", "bad_blink"}

RECURSIVE SortByOnset(_)
SortByOnset(iv) ==
    IF iv = <<>> THEN <<>>
    ELSE LET i == CHOOSE i \in DOMAIN iv :
                     \A j \in DOMAIN iv : iv[i][1] < iv[j][1] \/ (iv[i][1] = iv[j][1] /\ i <= j)
         IN <<iv[i]>> \o SortByOnset([k \in 1..(Len(iv) - 1) |->
                                         IF k < i THEN iv[k] ELSE iv[k + 1]])

\* _annotations_starts_stops(raw, ["BAD"]): onset and end of the BAD
\* annotations as samples from the start of the data, ordered by onset.
BadIntervals(r) ==
    LET bad == SelectSeq(r.annotations, LAMBDA a : a.description \in BadDescriptions)
        index(t) == RoundHalfEven(t[1] * r.info.sfreq, t[2])
    IN SortByOnset([i \in DOMAIN bad |->
                       <<index(bad[i].onset),
                         index(TimeAdd(bad[i].onset, bad[i].duration))>>])

\* (variant) a run that lasts to the end of the window is not found.
RECURSIVE RunsClosed(_, _, _)
RunsClosed(used, k, open) ==
    IF k > Len(used) THEN <<>>
    ELSE IF used[k]
    THEN RunsClosed(used, k + 1, IF open = <<>> THEN <<k - 1>> ELSE open)
    ELSE (IF open = <<>> THEN <<>> ELSE <<<<open[1], k - 1>>>>)
         \o RunsClosed(used, k + 1, <<>>)

\* The maximal runs of used samples, as <<start, stop>> counted from the first
\* position of used: what the scan of ~used[:-1] & used[1:] finds.
RECURSIVE Runs(_, _, _)
Runs(used, k, open) ==
    IF k > Len(used)
    THEN (IF open = <<>> THEN <<>> ELSE <<<<open[1], Len(used)>>>>)
    ELSE IF used[k]
    THEN Runs(used, k + 1, IF open = <<>> THEN <<k - 1>> ELSE open)
    ELSE (IF open = <<>> THEN <<>> ELSE <<<<open[1], k - 1>>>>)
         \o Runs(used, k + 1, <<>>)

NaN == Sample(<<"nan", 0>>, 0, 0)

\* (variant) the last sample of a BAD interval is not marked.
UsedMaskShort(onsets_ends, start, stop) ==
    [k \in 1..(stop - start) |->
        ~\E i \in DOMAIN onsets_ends :
            /\ onsets_ends[i][1] < onsets_ends[i][2]
            /\ onsets_ends[i][1] - start <= k - 1
            /\ k - 1 < onsets_ends[i][2] - start - 1]

\* used[onset - start : end - start] = False for every clipped interval
UsedMask(onsets_ends, start, stop) ==
    [k \in 1..(stop - start) |->
        ~\E i \in DOMAIN onsets_ends :
            /\ onsets_ends[i][1] < onsets_ends[i][2]
            /\ onsets_ends[i][1] - start <= k - 1
            /\ k - 1 < onsets_ends[i][2] - start]

\* The 'omit' loop: self[picks, start:stop] for every run, one after another.
RECURSIVE OmitData(_, _, _, _)
OmitData(r, runs, start, acc) ==
    IF runs = <<>> THEN acc
    ELSE LET got == GetItem(r, AllChannels(r), runs[1][1] + start,
                            <<runs[1][2] + start>>)
         IN IF got.err # "None" THEN [acc EXCEPT !.err = got.err]
            ELSE OmitData(r, Tail(runs), start,
                          [acc EXCEPT !.data = @ \o got.data])

\* str.lower() on the rejection modes in use.
Lower(str) ==
    CASE str \in {"omit", "Omit", "OMIT"} -> "omit"
      [] str \in {"nan", "NaN", "NAN"} -> "nan"
      [] OTHER -> str

\* _check_option("reject_by_annotation", reject_by_annotation.lower(),
\* ["omit", "nan"])
CheckOption(reject) == Lower(reject) \in {"omit", "nan"}

\* get_data(start=start0, stop=stop0, reject_by_annotation=reject) with all
\* channels picked; stop0 = <<>> is None, reject is "None" or a string.
GetData(r, start0, stop0, reject) ==
    LET start == Min(Max(0, start0), NTimes(r))
        stop == Min(Max(0, IF stop0 = <<>> THEN NTimes(r) ELSE stop0[1]), NTimes(r))
        plain == GetItem(r, AllChannels(r), start, <<stop>>)
        all_bad == BadIntervals(r)
        keep == SelectSeq(all_bad, LAMBDA x : x[1] < stop /\ x[2] > start)
        onsets_ends == [i \in DOMAIN keep |->
                           <<Max(keep[i][1], start), Min(keep[i][2], stop)>>]
        used == UsedMask(onsets_ends, start, stop)
        runs == Runs(used, 1, <<>>)
        n_kept == SumSeq([i \in DOMAIN runs |-> runs[i][2] - runs[i][1]])
    IN IF r.annotations = <<>> \/ reject = "None" THEN [err |-> plain.err, data |-> plain.data]
       ELSE IF ~CheckOption(reject) THEN [err |-> "ValueError", data |-> <<>>]
       ELSE IF keep = <<>> THEN [err |-> plain.err, data |-> plain.data]
       ELSE IF stop < start THEN [err |-> "ValueError", data |-> <<>>]
       ELSE IF (stop - start) - n_kept = 0
       THEN [err |-> plain.err, data |-> plain.data]
       ELSE IF reject = "omit"
       THEN OmitData(r, runs, start, [err |-> "None", data |-> <<>>])
       ELSE IF plain.err # "None" THEN [err |-> plain.err, data |-> <<>>]
       ELSE [err |-> "None",
             data |-> [k \in DOMAIN plain.data |->
                          IF used[k] THEN plain.data[k] ELSE NaN]]

\* ------------------------------------------- apply_gradient_compensation
COMP_CHUNK == 10000

Grades == {0, 1, 3}

\* make_compensator(info, from_, to): None when the grades are equal.
MakeCompensator(from, to) ==
    IF from = to THEN "None"
    ELSE CASE from = 0 /\ to = 1 -> "comp 0->1"
           [] from = 0 /\ to = 3 -> "comp 0->3"
           [] from = 1 /\ to = 0 -> "comp 1->0"
           [] from = 1 /\ to = 3 -> "comp 1->3"
           [] from = 3 /\ to = 0 -> "comp 3->0"
           [] from = 3 /\ to = 1 -> "comp 3->1"

\* self.proj: there are projectors and all of them are active.
Proj(r) ==
    /\ r.info.projs # <<>>
    /\ \A i \in DOMAIN r.info.projs : r.info.projs[i].active

\* (variant) lims without the closing n: np.arange(0, n, 10000) alone.
CompLimsOpen(n) ==
    [i \in 1..((n + COMP_CHUNK - 1) \div COMP_CHUNK) |-> (i - 1) * COMP_CHUNK]

\* lims = np.concatenate([np.arange(0, n, 10000), [n]])
CompLims(n) ==
    [i \in 1..((n + COMP_CHUNK - 1) \div COMP_CHUNK) |-> (i - 1) * COMP_CHUNK]
    \o <<n>>

\* for start, stop in zip(lims[:-1], lims[1:]): data[:, start:stop] = comp @ ...
RECURSIVE ApplyChunks(_, _, _, _)
ApplyChunks(cols, comp, lims, i) ==
    IF i >= Len(lims) THEN cols
    ELSE ApplyChunks([k \in DOMAIN cols |->
                         IF lims[i] < k /\ k <= lims[i + 1]
                         THEN Applied(cols[k], <<comp>>) ELSE cols[k]],
                     comp, lims, i + 1)

\* (variant) the grade is declared before the projection is looked at.
ApplyGradientCompensationEager(r, grade) ==
    LET current_comp == r.info.comp_grade
        from_comp == IF r.preload THEN current_comp ELSE r._read_comp_grade
        comp == MakeCompensator(from_comp, grade)
    IN IF current_comp = grade THEN Outcome(r, "None")
       ELSE IF Proj(r)
       THEN Outcome([r EXCEPT !.info.comp_grade = grade], "RuntimeError")
       ELSE IF r.preload
       THEN Outcome([r EXCEPT !.info.comp_grade = grade,
                              !._data.cols = ApplyChunks(@, comp,
                                                         CompLims(NTimes(r)), 1)],
                    "None")
       ELSE Outcome([r EXCEPT !.info.comp_grade = grade, !._comp = comp], "None")

ApplyGradientCompensation(r, grade) ==
    LET current_comp == r.info.comp_grade
        from_comp == IF r.preload THEN current_comp ELSE r._read_comp_grade
        comp == MakeCompensator(from_comp, grade)
    IN IF current_comp = grade THEN Outcome(r, "None")
       ELSE IF Proj(r) THEN Outcome(r, "RuntimeError")
       ELSE IF r.preload
       THEN Outcome([r EXCEPT !.info.comp_grade = grade,
                              !._data.cols = ApplyChunks(@, comp,
                                                         CompLims(NTimes(r)), 1)],
                    "None")
       ELSE Outcome([r EXCEPT !.info.comp_grade = grade, !._comp = comp], "None")

\* apply_proj: the projectors of info are made active and the operator is
\* kept; loaded data are projected at once.
ApplyProj(r) ==
    [r EXCEPT !._projector = "proj",
              !.info.projs = <<[desc |-> "ssp", active |-> TRUE]>>,
              !._data.cols = IF r.preload
                             THEN [k \in DOMAIN @ |-> Applied(@[k], <<"proj">>)]
                             ELSE @]

\* ------------------------------------------------- the inputs of AccessSpec
\* Containers with a pending compensation operator, a projector, or both.
MultContainers ==
    LET base == {r \in FileContainers : Len(r.filenames) = MaxFiles /\ NTimes(r) = 3
                                        /\ r._first_samps[1] = MaxFirst}
    IN UNION {{ApplyGradientCompensation(r, 1).raw, ApplyProj(r),
               ApplyProj(ApplyGradientCompensation(r, 1).raw)} : r \in base}

Descriptions == {"BAD_seg", "stim"}

\* An annotation of d samples that starts at sample o.
AnnotAt(r, o, d, desc) ==
    Annot(Time(o, r.info.sfreq), Time(d, r.info.sfreq), desc)

\* The lists of one to MaxBad annotations set on a container: the last is a
\* bad one.
AnnotationLists(r) ==
    LET one == {AnnotAt(r, o, d, "bad_blink") : o \in 0..(NTimes(r) - 1), d \in 0..MaxDur}
        any == {AnnotAt(r, o, d, desc) : o \in 0..(NTimes(r) - 1), d \in 0..MaxDur,
                                          desc \in Descriptions}
    IN UNION {{a \o <<b>> : a \in [1..(n - 1) -> any], b \in one} : n \in 1..MaxBad}

\* Containers with annotations: two files read on demand, one file preloaded.
AnnotatedContainers ==
    LET base == {r \in FileContainers :
                    /\ r._first_samps[1] = MaxFirst
                    /\ \/ Len(r.filenames) = 2 /\ ~r.preload /\ RawLengths(r) = <<2, 2>>
                          /\ r._first_samps[2] = 0
                       \/ Len(r.filenames) = 1 /\ r.preload /\ NTimes(r) = 3}
    IN UNION {{SetAnnotations(r, a) : a \in AnnotationLists(r)} : r \in base}

AccessContainers == InitContainers \cup MultContainers \cup AnnotatedContainers

OptionalStops(r) == {<<>>} \cup {<<k>> : k \in (-1)..(NTimes(r) + 1)}

AccessInit ==
    /\ SaveIdle
    /\ raw \in AccessContainers
    /\ op = OpRec("init", raw, 0, 0, <<>>, "None", Outcome(raw, "None"))
    /\ nops = 0
    /\ sl = <<>>

\* raw[sel, item1] with an integer item1
DoGetItemInt ==
    /\ nops = 0
    /\ \E sel \in Selections(raw), item1 \in (-NTimes(raw) - 1)..NTimes(raw) :
          LET p == ParseGetSetParams(item1)
          IN op' = OpRec("getitem_int", raw, item1, 0, <<>>, "None",
                         GetItem(raw, sel, p.start, p.stop))
    /\ nops' = MaxOps
    /\ UNCHANGED <<raw, savevars>>

\* raw._read_segment(start, stop)
DoReadSegment ==
    /\ nops = 0
    /\ \E start \in (-1)..(NTimes(raw) + 1), stop \in OptionalStops(raw) :
          op' = OpRec("read_segment", raw, start, stop, <<>>, "None",
                      ReadSegment(raw, start,
                                  IF stop = <<>> THEN NTimes(raw) ELSE stop[1],
                                  AllChannels(raw)))
    /\ nops' = MaxOps
    /\ UNCHANGED <<raw, savevars>>

\* raw.get_data(start=start, stop=stop, reject_by_annotation=reject)
RejectModes == {"None", "omit", "Omit", "OMIT", "nan", "NaN", "drop"}

DoGetData ==
    /\ nops = 0
    /\ \E start \in 0..NTimes(raw), stop \in OptionalStops(raw),
          reject \in RejectModes :
          op' = OpRec("get_data", raw, start, stop, <<>>, reject,
                      GetData(raw, start, stop, reject))
    /\ nops' = MaxOps
    /\ UNCHANGED <<raw, savevars>>

AccessNext == DoGetItemInt \/ DoReadSegment \/ DoGetData

AccessSpec == AccessInit /\ [][AccessNext]_vars

\* ---------------------------------------------------------------- C21
\* The last sample of a container: of its buffer, or as a read of the window
\* [n_times - 1, n_times) delivers it.
LastDatum(r) ==
    IF r.preload THEN r._data.cols[Len(r._data.cols)]
    ELSE ReadSegment(r, NTimes(r) - 1, NTimes(r), AllChannels(r)).data[1]

\* C21: indexing with the integer time index -1 returns exactly one sample
\* per selected channel, the last sample of the container, whether the
\* container is preloaded or read on demand.
C21_MinusOneIsLastSample ==
    (op.name = "getitem_int" /\ op.a = -1) =>
      /\ op.err = "None"
      /\ Len(op.out.data) = 1
      /\ op.out.data[1] = LastDatum(op.pre)

\* ---------------------------------------------------------------- C22
\* C22: _read_segment raises and calls no per-file reader whenever
\* start >= stop, stop being n_times when None and clamped to n_times
\* otherwise; so a start at or beyond n_times always fails.
C22_EmptyRangeRaises ==
    op.name = "read_segment" =>
      LET stop == IF op.b = <<>> THEN NTimes(op.pre)
                  ELSE IF op.b[1] < NTimes(op.pre) THEN op.b[1] ELSE NTimes(op.pre)
      IN /\ op.a >= stop => (op.err = "ValueError" /\ op.out.calls = <<>>)
         /\ op.a >= NTimes(op.pre) => (op.err = "ValueError" /\ op.out.calls = <<>>)

\* A read that starts at n_times of a container of two files read on demand,
\* with a stop beyond n_times.
C22_Witness ==
    /\ op.name = "read_segment"
    /\ ~op.pre.preload
    /\ Len(op.pre.filenames) = 2
    /\ op.a = NTimes(op.pre)
    /\ op.b = <<NTimes(op.pre) + 1>>
    /\ op.err = "ValueError"
    /\ op.out.calls = <<>>

\* ---------------------------------------------------------------- C23
\* The window [GetStart, GetStop) of the last get_data, after truncation to
\* [0, n_times].
GetStart == op.a

GetStop ==
    IF op.b = <<>> \/ op.b[1] > NTimes(op.pre) THEN NTimes(op.pre)
    ELSE IF op.b[1] < 0 THEN 0 ELSE op.b[1]

\* Sample s lies in the interval of some BAD annotation.
InBad(r, s) ==
    \E i \in DOMAIN r.annotations :
       LET a == r.annotations[i]
           end == TimeAdd(a.onset, a.duration)
       IN /\ a.description \in BadDescriptions
          /\ a.onset[1] * r.info.sfreq <= s * a.onset[2]
          /\ s * end[2] < end[1] * r.info.sfreq

\* The value of sample s without rejection.
DatumAt(r, s) ==
    IF r.preload THEN r._data.cols[s + 1]
    ELSE ReadSegment(r, s, s + 1, AllChannels(r)).data[1]

\* The values of the samples s .. stop - 1 that lie in no BAD interval.
RECURSIVE GoodData(_, _, _)
GoodData(r, s, stop) ==
    IF s >= stop THEN <<>>
    ELSE (IF InBad(r, s) THEN <<>> ELSE <<DatumAt(r, s)>>) \o GoodData(r, s + 1, stop)

Omitted == op.name = "get_data" /\ op.preload = "omit" /\ GetStart < GetStop

\* C23: get_data with reject_by_annotation='omit' over [start, stop) returns
\* exactly the samples of the window that lie in no BAD annotation interval,
\* in their order, each once; their number is stop - start minus the size of
\* the union of the BAD intervals clipped to the window.
C23_OmitReturnsGoodSamples ==
    Omitted =>
      /\ op.err = "None"
      /\ op.out.data = GoodData(op.pre, GetStart, GetStop)
      /\ Len(op.out.data)
         = (GetStop - GetStart)
           - Cardinality({s \in GetStart..(GetStop - 1) : InBad(op.pre, s)})

\* Two BAD annotations that overlap without one holding the other, in a
\* container of two files read on demand; samples are kept on both sides.
C23_Witness ==
    /\ Omitted
    /\ ~op.pre.preload
    /\ Len(op.pre.annotations) = 2
    /\ \A i \in 1..2 : op.pre.annotations[i].description \in BadDescriptions
    /\ \E s \in 0..3 : InBad(op.pre, s) /\ \A i \in 1..2 :
          LET a == op.pre.annotations[i]
          IN a.onset[1] * op.pre.info.sfreq <= s * a.onset[2]
             /\ a.duration[1] > 0
    /\ op.pre.annotations[1].onset # op.pre.annotations[2].onset
    /\ TimeAdd(op.pre.annotations[1].onset, op.pre.annotations[1].duration)
       # TimeAdd(op.pre.annotations[2].onset, op.pre.annotations[2].duration)
    /\ ~InBad(op.pre, 0)
    /\ ~InBad(op.pre, 3)
    /\ GetStart = 0
    /\ GetStop = 4
    /\ Len(op.out.data) = 2

\* ---------------------------------------------------------------- C24
NaNFilled == op.name = "get_data" /\ op.preload = "nan" /\ GetStart < GetStop

\* C24: get_data with reject_by_annotation='nan' over [start, stop) returns
\* stop - start samples; the entry of sample s is NaN exactly when s lies in a
\* BAD annotation interval, every other entry is the value returned without
\* rejection.
C24_NanMarksBadSamples ==
    NaNFilled =>
      /\ op.err = "None"
      /\ Len(op.out.data) = GetStop - GetStart
      /\ \A k \in 1..(GetStop - GetStart) :
            /\ (op.out.data[k] = NaN) <=> InBad(op.pre, GetStart + k - 1)
            /\ ~InBad(op.pre, GetStart + k - 1) =>
                  /\ op.out.data[k] = DatumAt(op.pre, GetStart + k - 1)
                  /\ op.out.data[k]
                     = GetData(op.pre, op.a, op.b, "None").data[k]

\* A BAD interval inside the window, with good samples before and after it
\* and an annotation that is not BAD.
C24_Witness ==
    /\ NaNFilled
    /\ GetStart = 0
    /\ GetStop = NTimes(op.pre)
    /\ ~InBad(op.pre, 0)
    /\ InBad(op.pre, 1)
    /\ ~InBad(op.pre, NTimes(op.pre) - 1)
    /\ \E i \in DOMAIN op.pre.annotations : op.pre.annotations[i].description = "stim"
    /\ op.out.data[2] = NaN
    /\ op.out.data[1] # NaN

\* ---------------------------------------------------------------- C29
\* C29: every per-file reader call of _read_segment is passed exactly one of
\* the calibration vector and the dense multiplier, the other being None; the
\* multiplier is passed exactly when a pending compensation operator or a
\* projector is set.
C29_CalsXorMult ==
    op.name \in {"read_segment", "getitem_int"} =>
      \A i \in DOMAIN op.out.calls :
         /\ (op.out.calls[i].cals = <<>>) # (op.out.calls[i].mult = <<>>)
         /\ (op.out.calls[i].mult # <<>>)
            <=> (op.pre._comp # "None" \/ op.pre._projector # "None")

\* A read over both files of a container with a pending compensation operator
\* and a projector: both calls are passed the multiplier only.
C29_Witness ==
    /\ op.name = "read_segment"
    /\ op.pre._comp # "None"
    /\ op.pre._projector # "None"
    /\ Len(op.out.calls) = 2
    /\ \A i \in 1..2 : op.out.calls[i].cals = <<>> /\ op.out.calls[i].mult # <<>>

\* ======================================================================
\* Gradient compensation.  One behaviour of CompSpec reads a file, preloaded
\* or not, and applies up to MaxOps of apply_gradient_compensation and
\* load_data.  The files are short, or of about COMP_CHUNK samples and
\* preloaded.
\* ======================================================================
ShortLens == 1..MaxLen

ChunkLens == {COMP_CHUNK, COMP_CHUNK + 1}

\* The projectors of the measurement information read: none, one that was
\* applied, one that was not.
ProjLists ==
    {<<>>, <<[desc |-> "ssp", active |-> TRUE]>>, <<[desc |-> "ssp", active |-> FALSE]>>}

CompContainers ==
    {Construct(<<FileName("a", 1)>>, <<f>>, <<f + n - 1>>, pl,
               [Info0 EXCEPT !.comp_grade = g, !.projs = projs]) :
        f \in 0..MaxFirst, n \in ShortLens, pl \in BOOLEAN, g \in {0, 1},
        projs \in ProjLists}
    \cup {Construct(<<FileName("a", 1)>>, <<0>>, <<n - 1>>, TRUE, Info0) :
             n \in ChunkLens}

CompInit ==
    /\ SaveIdle
    /\ raw \in CompContainers
    /\ op = OpRec("init", raw, 0, 0, <<>>, "None", Outcome(raw, "None"))
    /\ nops = 0
    /\ sl = <<>>

\* raw.apply_gradient_compensation(grade)
DoApplyComp ==
    /\ nops < MaxOps
    /\ \E grade \in Grades :
          LET out == ApplyGradientCompensation(raw, grade)
          IN /\ raw' = out.raw
             /\ op' = OpRec("apply_comp", raw, grade, 0, <<>>, "None", out)
             /\ nops' = NextOps(out)
    /\ UNCHANGED savevars

CompNext == DoApplyComp \/ DoLoadData

CompSpec == CompInit /\ [][CompNext]_vars

\* ---------------------------------------------------------------- C25
\* C25: apply_gradient_compensation to a grade other than the current one
\* raises when projection is active and leaves the container as it was (the
\* grade declared in info, the buffer, the pending operator); with the
\* current grade it does nothing and does not raise.
C25_CompensationGuard ==
    op.name = "apply_comp" =>
      /\ (op.a # op.pre.info.comp_grade /\ Proj(op.pre)) =>
            /\ op.err = "RuntimeError"
            /\ raw.info.comp_grade = op.pre.info.comp_grade
            /\ raw._data = op.pre._data
            /\ raw._comp = op.pre._comp
            /\ raw = op.pre
      /\ op.a = op.pre.info.comp_grade => (op.err = "None" /\ raw = op.pre)

\* A preloaded container with an applied projector was asked for another
\* grade.
C25_Witness ==
    /\ op.name = "apply_comp"
    /\ op.err = "RuntimeError"
    /\ op.pre.preload
    /\ Proj(op.pre)
    /\ op.a = 3
    /\ op.pre.info.comp_grade = 1
    /\ raw = op.pre

\* The same grade is asked for again, after a change of grade.
C25_WitnessSameGrade ==
    /\ op.name = "apply_comp"
    /\ nops = MaxOps
    /\ op.err = "None"
    /\ op.a = op.pre.info.comp_grade
    /\ op.pre._comp # "None"
    /\ raw = op.pre

\* ---------------------------------------------------------------- C26
\* The last operation changed the grade.
GradeChanged ==
    op.name = "apply_comp" /\ op.err = "None" /\ op.a # op.pre.info.comp_grade

\* C26: a change of grade of a preloaded container applies the operator to
\* every sample of the buffer exactly once (the chunks of COMP_CHUNK samples
\* partition [0, n_times)); on a container that is not preloaded the
\* operator is stored only, the next load applies it exactly once to every
\* sample, and clears it.
C26_CompensationAppliedOnce ==
    /\ (GradeChanged /\ op.pre.preload) =>
          /\ Len(raw._data.cols) = NTimes(op.pre)
          /\ \A k \in 1..NTimes(op.pre) :
                raw._data.cols[k]
                = Applied(op.pre._data.cols[k],
                          <<MakeCompensator(op.pre.info.comp_grade, op.a)>>)
          /\ raw._comp = op.pre._comp
    /\ (GradeChanged /\ ~op.pre.preload) =>
          /\ raw._comp = MakeCompensator(op.pre._read_comp_grade, op.a)
          /\ raw._data = op.pre._data
          /\ ~raw.preload
    /\ (op.name = "load_data" /\ op.err = "None" /\ ~op.pre.preload
        /\ op.pre._comp # "None") =>
          /\ raw._comp = "None"
          /\ Len(raw._data.cols) = NTimes(op.pre)
          /\ \A k \in 1..NTimes(op.pre) :
                raw._data.cols[k]
                = Applied(Sample(op.pre._raw_extras[1],
                                 op.pre._first_samps[1] + k - 1, 0),
                          <<op.pre._comp>>)

\* The grade of a preloaded container of COMP_CHUNK + 1 samples was changed
\* a second time.
C26_Witness ==
    /\ GradeChanged
    /\ nops = MaxOps
    /\ op.pre.preload
    /\ NTimes(op.pre) = COMP_CHUNK + 1
    /\ Len(raw._data.cols[COMP_CHUNK + 1].mult) = 2
    /\ Len(raw._data.cols[1].mult) = 2

\* The grade of a preloaded container of exactly COMP_CHUNK samples was
\* changed.
C26_WitnessMultiple ==
    /\ GradeChanged
    /\ op.pre.preload
    /\ NTimes(op.pre) = COMP_CHUNK
    /\ Len(raw._data.cols[COMP_CHUNK].mult) = 1

\* A container with a pending operator was loaded.
C26_WitnessLoad ==
    /\ op.name = "load_data"
    /\ op.err = "None"
    /\ op.pre._comp # "None"
    /\ NTimes(op.pre) = MaxLen
    /\ raw._comp = "None"
    /\ raw.preload
\* ------------------------------------------------- resampling with events
MaxEvents == 2      \* events in a caller's event list

\* (variant) the rescaled events are not limited to the last sample.
ResampleEventsUnclipped(r, sfreq, events) ==
    LET out == Resample(r, sfreq)
        o_sfreq == r.info.sfreq
    IN IF events = <<>> \/ out.err # "None"
       THEN out @@ [events |-> <<>>, caller |-> events]
       ELSE IF sfreq = o_sfreq
       THEN out @@ [events |-> events, caller |-> events]
       ELSE out @@ [events |->
                      <<[i \in DOMAIN events[1] |->
                           RoundHalfEven(events[1][i] * sfreq, o_sfreq)]>>,
                    caller |-> events]

\* resample(sfreq, events=events).  events is <<>> for None and <<list>> for
\* the first column of an event array; the outcome carries the returned
\* events and the caller's array as the call leaves it.
ResampleEvents(r, sfreq, events) ==
    LET out == Resample(r, sfreq)
        o_sfreq == r.info.sfreq
    IN IF events = <<>> \/ out.err # "None"
       THEN out @@ [events |-> <<>>, caller |-> events]
       ELSE IF sfreq = o_sfreq
       THEN out @@ [events |-> events, caller |-> events]
       ELSE out @@ [events |->
                      <<[i \in DOMAIN events[1] |->
                           Min(RoundHalfEven(events[1][i] * sfreq, o_sfreq),
                               Len(out.raw._data.cols) + FirstSamp(out.raw) - 1)]>>,
                    caller |-> events]

RECURSIVE SetToSortedSeq(_)
SetToSortedSeq(S) ==
    IF S = {} THEN <<>>
    ELSE LET m == CHOOSE x \in S : \A y \in S : x <= y
         IN <<m>> \o SetToSortedSeq(S \ {m})

\* Event lists of a container: up to MaxEvents samples of its data.
EventLists(r) ==
    {SetToSortedSeq(S) : S \in {T \in SUBSET (FirstSamp(r)..LastSamp(r)) :
                                    Cardinality(T) \in 1..MaxEvents}}

\* Containers at the construction rate and at twice that rate.
ResampleContainers ==
    InitContainers \cup {[r EXCEPT !.info.sfreq = 2 * InitSfreq] : r \in InitContainers}

\* op.before is the container before the previous operation.
ResampleInit ==
    /\ SaveIdle
    /\ raw \in ResampleContainers
    /\ op = OpRec("init", raw, 0, <<>>, <<>>, "None",
                  Outcome(raw, "None") @@ [events |-> <<>>, caller |-> <<>>])
            @@ [before |-> raw]
    /\ nops = 0
    /\ sl = <<>>

\* raw.resample(sfreq)
DoResampleNone ==
    /\ nops < MaxOps
    /\ \E sfreq \in Rates :
          LET out == ResampleEvents(raw, sfreq, <<>>)
          IN /\ raw' = out.raw
             /\ op' = OpRec("resample", raw, sfreq, <<>>, <<>>, "None", out)
                      @@ [before |-> op.pre]
             /\ nops' = NextOps(out)
    /\ UNCHANGED savevars

\* raw.resample(sfreq, events=events); the behaviour ends with the call.
DoResampleEvents ==
    /\ nops < MaxOps
    /\ \E sfreq \in Rates, events \in EventLists(raw) :
          LET out == ResampleEvents(raw, sfreq, <<events>>)
          IN /\ raw' = out.raw
             /\ op' = OpRec("resample_events", raw, sfreq, <<events>>, <<>>,
                            "None", out)
                      @@ [before |-> op.pre]
    /\ nops' = MaxOps
    /\ UNCHANGED savevars

ResampleNext == DoResampleNone \/ DoResampleEvents

ResampleSpec == ResampleInit /\ [][ResampleNext]_vars

Abs(x) == IF x < 0 THEN -x ELSE x

\* The last two operations resampled by a ratio r # 1 and then by 1/r.
RoundTrip ==
    /\ op.name = "resample"
    /\ op.err = "None"
    /\ op.pre.info.sfreq # op.before.info.sfreq
    /\ raw.info.sfreq = op.before.info.sfreq

\* Every file of the container has the length the length formula gives.
LengthFormula ==
    \A ri \in 1..Len(raw._first_samps) :
       RawLengths(raw)[ri]
         = Max(RoundHalfEven(RawLengths(op.pre)[ri] * op.a, op.pre.info.sfreq), 1)

\* C27 (as stated): resampling by r and then by 1/r yields a sample count
\* within one sample of the original count, for single-file and multi-file
\* containers, each file's new length being round(ratio * old_length)
\* bounded below by 1.
C27_RoundTripWithinOne ==
    RoundTrip =>
      /\ LengthFormula
      /\ Abs(NTimes(raw) - NTimes(op.before)) <= 1

\* C27 (amended): after resampling by a ratio r >= 1/2 and then by 1/r every
\* file is within one sample of its original length, so a container of k
\* files is within k samples of its original count (one sample for a single
\* file); each file's new length is round(ratio * old_length) bounded below
\* by 1.
C27_RoundTripWithinOnePerFile ==
    RoundTrip /\ 2 * op.pre.info.sfreq >= op.before.info.sfreq =>
      /\ LengthFormula
      /\ Len(raw._first_samps) = Len(op.before._first_samps)
      /\ \A ri \in 1..Len(raw._first_samps) :
            Abs(RawLengths(raw)[ri] - RawLengths(op.before)[ri]) <= 1
      /\ Abs(NTimes(raw) - NTimes(op.before)) <= Len(raw._first_samps)

\* A two-file container comes back two samples away from its original count.
C27_Witness ==
    /\ RoundTrip
    /\ 2 * op.pre.info.sfreq >= op.before.info.sfreq
    /\ Len(raw._first_samps) = 2
    /\ Abs(NTimes(raw) - NTimes(op.before)) = 2

\* Below r = 1/2 a single file comes back more than one sample away.
C27_WitnessSmallRatio ==
    /\ RoundTrip
    /\ 2 * op.pre.info.sfreq < op.before.info.sfreq
    /\ Len(raw._first_samps) = 1
    /\ Abs(NTimes(raw) - NTimes(op.before)) > 1

Clip(x, lo, hi) == IF x < lo THEN lo ELSE IF x > hi THEN hi ELSE x

\* The sample event i is rescaled to: round(sample * ratio).
Rescaled(i) == RoundHalfEven(op.b[1][i] * op.a, op.pre.info.sfreq)

\* C28: when resample is given events whose samples lie in [first_samp,
\* last_samp] of the container before resampling, every returned event sample
\* is round(sample * ratio) clipped into [first_samp, last_samp] of the
\* resampled container, and the caller's event array is left unmodified.
C28_EventsRescaledAndClipped ==
    op.name = "resample_events" /\ op.err = "None" =>
      /\ Len(op.out.events) = 1
      /\ DOMAIN op.out.events[1] = DOMAIN op.b[1]
      /\ \A i \in DOMAIN op.b[1] :
            /\ op.out.events[1][i] = Clip(Rescaled(i), FirstSamp(raw), LastSamp(raw))
            /\ op.out.events[1][i] \in FirstSamp(raw)..LastSamp(raw)
      /\ op.out.caller = op.b

\* An event's rescaled sample lay past the new last sample and was clipped,
\* next to one that was not.
C28_Witness ==
    /\ op.name = "resample_events"
    /\ op.err = "None"
    /\ op.a # op.pre.info.sfreq
    /\ \E i, j \in DOMAIN op.b[1] :
          /\ Rescaled(i) > LastSamp(raw)
          /\ op.out.events[1][i] = LastSamp(raw)
          /\ Rescaled(j) < LastSamp(raw)
          /\ op.out.events[1][j] = Rescaled(j)

\* ------------------------------------------------ memory maps and teardown
\* The paths of this part: the one given as preload and the one behind a
\* memory map of the caller.
PreloadPath == "preload.dat"
CallerPath == "caller.dat"

\* A file that backs a memory map, and who created the map.
BackingFile(creator) == [creator |-> creator]

\* _allocate_data: zeros in memory for None and True, else a np.memmap on the
\* file at the path (a buffer with a filename).
AllocateData(preload, rows, cols) ==
    IF preload \in {"None", "True"} THEN Buffer(rows, cols)
    ELSE Buffer(rows, cols) @@ [filename |-> preload]

\* getattr(self._data, "filename", None) is not None
IsMemmap(buf) == "filename" \in DOMAIN buf

\* BaseRaw.__init__ of a reader with preload False, True or a path:
\* _preload_data(preload) reads every sample into the buffer that
\* _allocate_data returns.
ConstructPreload(files, first_samps, last_samps, preload, info) ==
    LET r == Construct(files, first_samps, last_samps, FALSE, info)
    IN IF preload = "False" THEN r
       ELSE [PreloadData(r) EXCEPT !._data = AllocateData(preload, @.rows, @.cols)]

\* BaseRaw.__init__ with preload an ndarray of the caller: self._data = preload
ConstructGiven(first_samp, buf, info) ==
    [Construct(<<NoFile>>, <<first_samp>>, <<first_samp + Len(buf.cols) - 1>>,
               FALSE, info)
     EXCEPT !._data = buf, !.preload = TRUE]

\* __del__: the file of a memory-mapped buffer is removed.
Del(r, d) ==
    IF IsMemmap(r._data)
    THEN [raw |-> [r EXCEPT !._data = NoData], disk |-> Remove(d, r._data.filename)]
    ELSE [raw |-> r, disk |-> d]

Preloads == {"False", "True", PreloadPath}

\* The arrays a caller hands over: in memory, or a memory map of the caller.
CallerArrays ==
    UNION {{Buffer(Info0.nchan, [k \in 1..n |-> Sample(<<"mem", 0>>, k - 1, 0)]),
            Buffer(Info0.nchan, [k \in 1..n |-> Sample(<<"mem", 0>>, k - 1, 0)])
              @@ [filename |-> CallerPath]} : n \in 1..MaxLen}

\* A container after construction, with the files that back memory maps.
Constructions ==
    UNION {
      {[raw |-> ConstructPreload([i \in 1..n |-> FileName("a", i)], firsts,
                                 [i \in 1..n |-> firsts[i] + lens[i] - 1], pl, Info0),
        disk |-> IF pl = PreloadPath THEN pl :> BackingFile("container") ELSE <<>>] :
          firsts \in [1..n -> 0..MaxFirst], lens \in [1..n -> 1..MaxLen],
          pl \in Preloads} :
      n \in 1..MaxFiles}
    \cup
    {[raw |-> ConstructGiven(f, buf, Info0),
      disk |-> IF IsMemmap(buf) THEN CallerPath :> BackingFile("caller") ELSE <<>>] :
        f \in 0..MaxFirst, buf \in CallerArrays}

TeardownInit ==
    /\ cfg = <<>>
    /\ part_idx = 0
    /\ is_next_split = FALSE
    /\ prev_fname = NoName
    /\ output_fnames = <<>>
    /\ wstart = 0
    /\ warnings = 0
    /\ result = "idle"
    /\ \E c \in Constructions :
          /\ raw = c.raw
          /\ disk = c.disk
          /\ op = OpRec("init", c.raw, c.disk, 0, <<>>, "None", Outcome(c.raw, "None"))
    /\ nops = 0
    /\ sl = <<>>

\* The container is torn down; op.a holds the files before.
DoDel ==
    /\ nops < MaxOps
    /\ LET out == Del(raw, disk)
       IN /\ raw' = out.raw
          /\ disk' = out.disk
          /\ op' = OpRec("del", raw, disk, 0, <<>>, "None", Outcome(out.raw, "None"))
    /\ nops' = MaxOps
    /\ UNCHANGED <<cfg, part_idx, is_next_split, prev_fname, output_fnames,
                   wstart, warnings, result, sl>>

TeardownNext == DoCrop \/ DoLoadData \/ DoDel

TeardownSpec == TeardownInit /\ [][TeardownNext]_vars

\* The files the teardown removed.
Deleted == (DOMAIN op.a) \ (DOMAIN disk)

\* C30: when a container is torn down, the file backing its data buffer is
\* deleted if and only if the buffer is a memory map that this container
\* itself created (preload given as a path); a buffer supplied by the caller
\* is never deleted, and no file is deleted for an in-memory buffer.
C30_DeletesOnlyOwnMemmap ==
    op.name = "del" =>
      /\ \A name \in DOMAIN op.a :
            name \in Deleted
              <=> /\ IsMemmap(op.pre._data)
                  /\ op.pre._data.filename = name
                  /\ op.a[name].creator = "container"
      /\ \A name \in DOMAIN op.a : op.a[name].creator = "caller" => name \in DOMAIN disk
      /\ ~IsMemmap(op.pre._data) => Deleted = {}

\* What holds of the teardown: the file of a memory-mapped buffer is removed,
\* whoever created it, and nothing else is.
TeardownRemovesBufferFile ==
    op.name = "del" =>
      Deleted = IF IsMemmap(op.pre._data) THEN {op.pre._data.filename} ELSE {}

\* A container that created its memory map is torn down and the file is gone.
TeardownOwnWitness ==
    /\ op.name = "del"
    /\ IsMemmap(op.pre._data)
    /\ op.a[op.pre._data.filename].creator = "container"
    /\ Deleted = {PreloadPath}

\* A cropped container leaves the file of its former memory map on disk.
TeardownCroppedWitness ==
    /\ op.name = "del"
    /\ ~IsMemmap(op.pre._data)
    /\ PreloadPath \in DOMAIN disk

\* ------------------------------------------------ further writer claims
\* C33: within one output file the 'buffer size is too large for the given
\* split size' error is raised only for the first data buffer written to that
\* file, never for a later buffer of the same file.
C33_TooLargeOnlyOnFirstBuffer ==
    \A name \in DOMAIN disk :
       disk[name].exit = "buffer_too_large" => Len(BufRecs(disk[name])) = 1

\* C34: the list that save returns names, in part order, exactly the files on
\* disk for that save.  Under bids naming a save that does not split leaves
\* only the given name and no reserved split-01 file; a save that splits
\* leaves part 0 under the split-01 name and no file under the given name.
C34_ReturnedNamesAreTheFiles ==
    result = "returned" =>
      /\ {output_fnames[i] : i \in 1..Len(output_fnames)} = DOMAIN disk
      /\ \A i \in 1..Len(output_fnames) : OutFile(i).part = i - 1
      /\ \A i, j \in 1..Len(output_fnames) :
            output_fnames[i] = output_fnames[j] => i = j
      /\ cfg.split_naming = "bids" /\ Len(output_fnames) = 1
            => DOMAIN disk = {GivenName}
      /\ cfg.split_naming = "bids" /\ Len(output_fnames) > 1
            => /\ output_fnames[1] = MakeSplitFnames("bids")[0]
               /\ GivenName \notin DOMAIN disk

\* A bids save that did not split, and one that split into three files.
C34_Witness ==
    /\ result = "returned"
    /\ cfg.split_naming = "bids"
    /\ Len(output_fnames) = 3
    /\ disk[MakeSplitFnames("bids")[0]].part = 0

C34_WitnessNoSplit ==
    /\ result = "returned"
    /\ cfg.split_naming = "bids"
    /\ output_fnames = <<GivenName>>

\* ------------------------------------------------------- the call of save
\* An info object in the hands of save: its value, whether it is the
\* container's own object (an alias) or a copy, and the container's info as
\* the writes to the object have left it.
InfoRef(val, own, cont) == [val |-> val, own |-> own, cont |-> cont]

\* A write to the object: it reaches the container through an alias.
Written(ref, val) == InfoRef(val, ref.own, IF ref.own THEN val ELSE ref.cont)

\* activate_proj(projs, copy=False): every projector is marked active in place.
ActivateProj(projs) == [i \in DOMAIN projs |-> [projs[i] EXCEPT !.active = TRUE]]

\* (variant) the projectors are activated in the container's own info.
SaveInfoShared(r, proj) ==
    IF proj
    THEN Written(InfoRef(r.info, TRUE, r.info),
                 [r.info EXCEPT !.projs = ActivateProj(@)])
    ELSE InfoRef(r.info, TRUE, r.info)

\* if proj: info = deepcopy(self.info); setup_proj; activate_proj(info["projs"])
\* else: info = self.info
SaveInfo(r, proj) ==
    IF proj
    THEN Written(InfoRef(r.info, FALSE, r.info),
                 [r.info EXCEPT !.projs = ActivateProj(@)])
    ELSE InfoRef(r.info, TRUE, r.info)

\* pick_info(info, sel, copy=copy)
PickInfo(ref, copy) == IF copy THEN InfoRef(ref.val, FALSE, ref.cont) ELSE ref

\* _RawFidWriter.__init__: self.info = pick_info(info, sel=self.picks,
\* copy=True); scanno of channel k is set to k + 1 and, with reset_range, its
\* range to 1.0, in self.info.
WriterInfo(ref, reset_range) ==
    LET picked == PickInfo(ref, TRUE)
    IN Written(picked,
               [scanno |-> [k \in 1..picked.val.nchan |-> k],
                range |-> [k \in 1..picked.val.nchan |->
                             IF reset_range THEN <<1>> ELSE <<>>]] @@ picked.val)

\* The container when save has set up its writer.
AfterWriterInit(r, ref) == [r EXCEPT !.info = ref.cont]

\* _tmin_tmax_to_start_stop with tmax=None: stop = n_times
TminTmaxToStartStop(r, start) ==
    IF NTimes(r) <= start
    THEN [err |-> "ValueError: yielded no samples", start |-> start, stop |-> NTimes(r)]
    ELSE [err |-> "None", start |-> start, stop |-> NTimes(r)]

\* (variant) the file name is tested whether the data are preloaded or not.
SaveGuardAlways(r, fname) == \E i \in DOMAIN r.filenames : r.filenames[i] = fname

\* if not self.preload and fname in self.filenames: raise ValueError
SaveGuard(r, fname) ==
    ~r.preload /\ \E i \in DOMAIN r.filenames : r.filenames[i] = fname

\* BaseRaw.save up to the call of _write_raw: the error it raises ("None" when
\* it reaches _write_raw), the container it leaves, the writer it sets up.
Save(r, d, fname, overwrite, proj, start, c) ==
    LET ss == TminTmaxToStartStop(r, start)
        ref == WriterInfo(SaveInfo(r, proj), TRUE)
        fail(err) == [err |-> err, raw |-> r, cfg |-> <<>>]
    IN IF SaveGuard(r, fname) THEN fail("ValueError")
       ELSE IF GetItem(r, <<0>>, 0, <<1>>).err # "None"
       THEN fail(GetItem(r, <<0>>, 0, <<1>>).err)
       ELSE IF fname \in DOMAIN d /\ ~overwrite THEN fail("FileExistsError")
       ELSE IF ss.err # "None" THEN fail(ss.err)
       ELSE [err |-> "None",
             raw |-> AfterWriterInit(r, ref),
             cfg |-> [start |-> ss.start, stop |-> ss.stop,
                      first_samp |-> FirstSamp(r), n_times |-> NTimes(r),
                      skips |-> {}, picks |-> AllChannels(r)] @@ c]

\* ------------------------------------------------ the inputs of CallSpec
\* A source file as the reader found it on disk.
SourceFile ==
    [part |-> -1, start |-> 0, first_samp_tag |-> <<>>, prev_ref |-> <<>>,
     recs |-> <<>>, next_ref |-> <<>>, exit |-> "source", new_start |-> 0,
     size |-> 0]

\* The container read from the file that save is given, and from other files.
OwnFile(r) == [r EXCEPT !.filenames[1] = GivenName]

\* A recording that takes more than MAX_N_SPLITS files when it is written one
\* buffer to a file.
LongRecording == ConstructArray(0, MAX_N_SPLITS + 2, Info0)

CallContainers ==
    LET base == InitContainers \cup {OwnFile(r) : r \in FileContainers}
    IN base \cup {[r EXCEPT !.info.projs = <<[desc |-> "ssp", active |-> FALSE]>>] :
                     r \in {b \in base : NTimes(b) = MaxLen}}
            \cup {LongRecording}

SourcesOnDisk(r) ==
    [name \in {r.filenames[i] : i \in DOMAIN r.filenames} \ {NoFile} |-> SourceFile]

CallConfigs ==
    [buffer_size : 1..MaxBuf, split_size : SplitSizes, drop_small_buffer : {FALSE},
     split_naming : {"neuromag", "bids"}]

CallInit ==
    /\ cfg = <<>>
    /\ part_idx = 0
    /\ is_next_split = TRUE
    /\ prev_fname = NoName
    /\ output_fnames = <<>>
    /\ wstart = 0
    /\ warnings = 0
    /\ result = "idle"
    /\ raw \in CallContainers
    /\ disk = SourcesOnDisk(raw)
    /\ op = OpRec("init", raw, disk, 0, <<>>, "None", Outcome(raw, "None"))
    /\ nops = 0
    /\ sl = <<>>

\* raw.save(fname, ...): op.a holds the files before the call, op.b the
\* arguments.
DoSave ==
    /\ result = "idle"
    /\ \E overwrite, proj \in BOOLEAN, start \in 0..MaxStart, c \in CallConfigs :
          LET out == Save(raw, disk, GivenName, overwrite, proj, start, c)
          IN /\ raw' = out.raw
             /\ op' = OpRec("save", raw, disk,
                            [overwrite |-> overwrite, proj |-> proj, start |-> start],
                            <<>>, "None", out)
             /\ cfg' = out.cfg
             /\ wstart' = IF out.err = "None" THEN out.cfg.start ELSE wstart
             /\ result' = IF out.err = "None" THEN "running" ELSE out.err
    /\ nops' = MaxOps
    /\ UNCHANGED <<part_idx, is_next_split, prev_fname, output_fnames, disk,
                   warnings, sl>>

CallNext == DoSave \/ WritePart \/ Return \/ RaiseMaxSplits

CallSpec == CallInit /\ [][CallNext]_vars

\* C31: save to a file name that is one of the container's own source files
\* fails with a ValueError when the container is not preloaded, before any
\* output file is opened or modified; when the container is preloaded the same
\* save is not refused: with overwrite, and a first sample that the container
\* holds, it goes on to write.
SavesToOwnFile ==
    /\ op.name = "save"
    /\ \E i \in DOMAIN op.pre.filenames : op.pre.filenames[i] = GivenName

C31_SaveToOwnFileNeedsPreload ==
    SavesToOwnFile =>
      /\ ~op.pre.preload
           => /\ op.err = "ValueError"
              /\ result = "ValueError"
              /\ disk = op.a
              /\ output_fnames = <<>>
      /\ op.pre.preload
           => /\ op.err # "ValueError"
              /\ op.b.overwrite /\ op.b.start < NTimes(op.pre)
                   => op.err = "None" /\ result # "idle"

\* The save of a preloaded container has replaced its own source file.
C31_Witness ==
    /\ SavesToOwnFile
    /\ op.pre.preload
    /\ result = "returned"
    /\ disk[output_fnames[1]].part = 0
    /\ GivenName \in DOMAIN op.a

\* The save of a container read on demand was refused.
C31_WitnessRefused ==
    /\ SavesToOwnFile
    /\ ~op.pre.preload
    /\ result = "ValueError"
    /\ op.b.overwrite

\* C35: save does not modify the container it writes: per-file sample ranges,
\* data buffer, preload flag, annotations and info (also with proj=True) are
\* the same after every step of the call; inside the writer only the start
\* position changes between files, while stop, picks and configuration stay
\* fixed.
C35_SaveLeavesContainer ==
    [][/\ raw' = raw
       /\ result = "running" => cfg' = cfg]_vars

\* A save with proj=True of a container with an inactive projector has
\* written two files.
C35_Witness ==
    /\ op.name = "save"
    /\ result = "returned"
    /\ Len(output_fnames) >= 2
    /\ op.b.proj
    /\ op.pre.info.projs # <<>>
    /\ raw = op.pre
    /\ cfg.picks = AllChannels(raw)

\* ======================================================= SlidingEstimator
\* mne/decoding/search_light.py.  A task is an entry of the last axis of X; an
\* estimator is known by the attributes of its class (the methods it has).
MaxTasks == 4       \* tasks of a data set

\* np.array_split and array_split_idx of n entries in k chunks: chunk j holds
\* the indices it takes, the first n % k chunks one more than the others.
ArraySplitIdx(n, k) ==
    [j \in 1..k |->
       [i \in 1..((n \div k) + (IF j <= n % k THEN 1 ELSE 0)) |->
          (j - 1) * (n \div k) + Min(j - 1, n % k) + i]]

\* parallel_func(func, n_jobs, max_jobs=...): the job count it hands back.
ParallelNJobs(n_jobs, max_jobs) == Min(n_jobs, max_jobs)

\* _check_estimator: fit and one of the predicting methods are needed.
CheckEstimator(base) ==
    /\ "fit" \in base
    /\ base \cap {"predict", "transform", "predict_proba", "decision_function"} # {}

\* est = clone(estimator); est.fit(X[..., ii], y)
Fitted(base, x) == [base |-> base, fitted_on |-> x]

\* (variant) every clone is fitted on the first task of the chunk.
SlFitFirst(base, X) == [ii \in 1..Len(X) |-> Fitted(base, X[1])]

\* _sl_fit(estimator, X, y, pb)
SlFit(base, X) == [ii \in 1..Len(X) |-> Fitted(base, X[ii])]

\* _sl_transform(estimators, X, method, pb)
SlTransform(estimators, X, method) ==
    IF \E ii \in 1..Len(estimators) : method \notin estimators[ii].base
    THEN [err |-> "AttributeError", y_pred |-> <<>>]
    ELSE IF Len(estimators) = 0
    THEN [err |-> "UnboundLocalError", y_pred |-> <<>>]
    ELSE [err |-> "None",
          y_pred |-> [ii \in 1..Len(estimators) |->
                        [est |-> estimators[ii], method |-> method, x |-> X[ii]]]]

\* _check_method: the ValueError is built and not raised.
CheckMethod(base, method) ==
    LET used == IF method = "transform" /\ "transform" \notin base
                THEN "predict" ELSE method
    IN [err |-> "None", method |-> used]

\* The results of the jobs as parallel(...) returns them: in the order the
\* jobs were submitted, whatever the order they finished in.
ParallelResults(jobs) == [j \in 1..Len(jobs) |-> jobs[j].out]

\* (variant) the chunks are put together last first.
RECURSIVE ConcatenatedBackwards(_)
ConcatenatedBackwards(outs) ==
    IF outs = <<>> THEN <<>> ELSE ConcatenatedBackwards(Tail(outs)) \o Head(outs)

\* for job_estimators in estimators: for est in job_estimators: ... and
\* np.concatenate(y_pred, axis=1): the chunks one after the other.
RECURSIVE Concatenated(_)
Concatenated(outs) ==
    IF outs = <<>> THEN <<>> ELSE Head(outs) \o Concatenated(Tail(outs))

Job(x, est) == [x |-> x, est |-> est, done |-> FALSE, out |-> <<>>, err |-> "None"]

Picked(seq, idx) == [i \in 1..Len(idx) |-> seq[idx[i]]]

\* ------------------------------------------------ the inputs of SearchSpec
Bases ==
    {{"fit", "predict"}, {"fit", "transform"}, {"fit", "transform", "predict"},
     {"fit", "predict_proba"}, {"fit"}}

Methods == {"transform", "predict", "predict_proba"}

Tasks(name, n) == [i \in 1..n |-> <<name, i>>]

othervars == <<cfg, part_idx, is_next_split, prev_fname, output_fnames, wstart,
               disk, warnings, result, raw, op, nops>>

\* SlidingEstimator(base_estimator, n_jobs=n_jobs)
SearchInit ==
    /\ SaveIdle
    /\ raw = <<>>
    /\ op = <<>>
    /\ nops = 0
    /\ \E base \in Bases, n_jobs \in 1..(MaxTasks + 1) :
          sl = [base |-> base, n_jobs |-> n_jobs, phase |-> "new", X |-> <<>>,
                estimators_ |-> <<>>, jobs |-> <<>>, finished |-> <<>>,
                Xt |-> <<>>, asked |-> "None", check |-> <<>>, y_pred |-> <<>>,
                err |-> "None"]

\* fit(X, y) up to the submission of the jobs.
DoFit ==
    /\ sl.phase = "new"
    /\ \E n \in 1..MaxTasks :
          LET X == Tasks("X", n)
              n_jobs == ParallelNJobs(sl.n_jobs, n)
              splits == ArraySplitIdx(n, n_jobs)
          IN IF ~CheckEstimator(sl.base)
             THEN sl' = [sl EXCEPT !.phase = "raised", !.err = "ValueError"]
             ELSE sl' = [sl EXCEPT
                           !.phase = "fitting",
                           !.X = X,
                           !.estimators_ = <<>>,
                           !.finished = <<>>,
                           !.jobs = [j \in 1..n_jobs |->
                                       Job(Picked(X, splits[j]), <<>>)]]
    /\ UNCHANGED othervars

\* One job of fit runs _sl_fit on its chunk; the jobs finish in any order.
RunFitJob ==
    /\ sl.phase = "fitting"
    /\ \E j \in 1..Len(sl.jobs) :
          /\ ~sl.jobs[j].done
          /\ sl' = [sl EXCEPT !.jobs[j].done = TRUE,
                              !.jobs[j].out = SlFit(sl.base, sl.jobs[j].x),
                              !.finished = Append(@, j)]
    /\ UNCHANGED othervars

\* fit, once parallel(...) has returned: estimators_ is filled.
FitAssemble ==
    /\ sl.phase = "fitting"
    /\ \A j \in 1..Len(sl.jobs) : sl.jobs[j].done
    /\ sl' = [sl EXCEPT !.phase = "fitted",
                        !.estimators_ = Concatenated(ParallelResults(sl.jobs))]
    /\ UNCHANGED othervars

\* transform(X), predict(X), predict_proba(X): _transform(X, method) up to the
\* submission of the jobs.
DoTransform ==
    /\ sl.phase = "fitted"
    /\ \E method \in Methods, n \in {Len(sl.X), Len(sl.X) + 1} :
          LET Xt == Tasks("Xt", n)
              check == CheckMethod(sl.base, method)
              n_jobs == ParallelNJobs(sl.n_jobs, n)
              splits == ArraySplitIdx(n, n_jobs)
              est_splits == ArraySplitIdx(Len(sl.estimators_), n_jobs)
          IN IF check.err # "None"
             THEN sl' = [sl EXCEPT !.phase = "raised", !.err = check.err,
                                   !.asked = method, !.check = check, !.Xt = Xt]
             ELSE IF n # Len(sl.estimators_)
             THEN sl' = [sl EXCEPT !.phase = "raised", !.err = "ValueError",
                                   !.asked = method, !.check = check, !.Xt = Xt]
             ELSE sl' = [sl EXCEPT
                           !.phase = "transforming",
                           !.asked = method,
                           !.check = check,
                           !.Xt = Xt,
                           !.finished = <<>>,
                           !.jobs = [j \in 1..n_jobs |->
                                       Job(Picked(Xt, splits[j]),
                                           Picked(sl.estimators_, est_splits[j]))]]
    /\ UNCHANGED othervars

\* One job of _transform runs _sl_transform on its chunk.
RunTransformJob ==
    /\ sl.phase = "transforming"
    /\ \E j \in 1..Len(sl.jobs) :
          /\ ~sl.jobs[j].done
          /\ LET res == SlTransform(sl.jobs[j].est, sl.jobs[j].x, sl.check.method)
             IN sl' = [sl EXCEPT !.jobs[j].done = TRUE,
                                 !.jobs[j].out = res.y_pred,
                                 !.jobs[j].err = res.err,
                                 !.finished = Append(@, j)]
    /\ UNCHANGED othervars

\* _transform, once parallel(...) has returned: the error of a job is raised,
\* else the chunks are concatenated.
TransformAssemble ==
    /\ sl.phase = "transforming"
    /\ \A j \in 1..Len(sl.jobs) : sl.jobs[j].done
    /\ IF \E j \in 1..Len(sl.jobs) : sl.jobs[j].err # "None"
       THEN sl' = [sl EXCEPT
                     !.phase = "raised",
                     !.err = sl.jobs[CHOOSE j \in 1..Len(sl.jobs) :
                                       sl.jobs[j].err # "None"].err]
       ELSE sl' = [sl EXCEPT !.phase = "done",
                             !.y_pred = Concatenated(ParallelResults(sl.jobs))]
    /\ UNCHANGED othervars

SearchNext ==
    \/ DoFit
    \/ RunFitJob
    \/ FitAssemble
    \/ DoTransform
    \/ RunTransformJob
    \/ TransformAssemble

SearchSpec == SearchInit /\ [][SearchNext]_vars

\* C32: for every job count from 1 to the number of tasks, fit leaves
\* estimators_ with one entry per task, estimators_[i] being the clone fitted
\* on X[..., i], and transform/predict put in output column i the result of
\* estimators_[i] applied to X[..., i]; the results of the parallel chunks are
\* assembled in the order the chunks were submitted.
C32_OneEstimatorPerTaskInOrder ==
    /\ sl.phase \in {"fitted", "transforming", "done"}
         => /\ Len(sl.estimators_) = Len(sl.X)
            /\ \A i \in 1..Len(sl.X) :
                  sl.estimators_[i] = Fitted(sl.base, sl.X[i])
    /\ sl.phase = "done"
         => /\ Len(sl.y_pred) = Len(sl.Xt)
            /\ \A i \in 1..Len(sl.Xt) :
                  sl.y_pred[i] = [est |-> sl.estimators_[i],
                                  method |-> sl.check.method, x |-> sl.Xt[i]]

\* Four tasks were transformed by three jobs of which the last finished first.
C32_Witness ==
    /\ sl.phase = "done"
    /\ Len(sl.Xt) = MaxTasks
    /\ Len(sl.jobs) = 3
    /\ sl.finished[1] = 3
    /\ sl.n_jobs = 3

\* The fit of as many jobs as tasks, finished last job first.
C32_WitnessFit ==
    /\ sl.phase = "fitted"
    /\ Len(sl.jobs) = Len(sl.X)
    /\ Len(sl.X) = MaxTasks
    /\ sl.finished[1] = MaxTasks

\* C39: _check_method raises a ValueError when the base estimator has no
\* attribute for the requested method (after the fallback from 'transform' to
\* 'predict'), and returns the method name only when the estimator has it.
C39_CheckMethodRaises ==
    sl.check # <<>> =>
      LET used == IF sl.asked = "transform" /\ "transform" \notin sl.base
                  THEN "predict" ELSE sl.asked
      IN /\ used \notin sl.base => sl.check.err = "ValueError"
         /\ sl.check.err = "None" => sl.check.method = used /\ used \in sl.base

\* C36: for every integer time index i with -n_times <= i < n_times, indexing
\* a container that is read on demand returns the single sample that indexing
\* it after load_data returns, and never a zero that no per-file reader
\* delivered.
IndexedOnDemand ==
    /\ op.name = "getitem_int"
    /\ ~op.pre.preload
    /\ -NTimes(op.pre) <= op.a
    /\ op.a < NTimes(op.pre)

C36_OnDemandIndexAsLoaded ==
    IndexedOnDemand =>
      LET p == ParseGetSetParams(op.a)
          loaded == GetItem(LoadData(op.pre).raw, op.out.idx, p.start, p.stop)
      IN /\ op.err = "None"
         /\ loaded.err = "None"
         /\ Len(op.out.data) = 1
         /\ op.out.data = loaded.data
         /\ \A k \in DOMAIN op.out.data : op.out.data[k] # Zero

\* ------------------------------------------------- pending compensation
\* The operations that change the buffer or the pending operator, in any
\* order, on the short containers of CompContainers.
PendingContainers == {r \in CompContainers : NTimes(r) <= MaxLen}

PendingInit ==
    /\ SaveIdle
    /\ raw \in PendingContainers
    /\ op = OpRec("init", raw, 0, 0, <<>>, "None", Outcome(raw, "None"))
    /\ nops = 0
    /\ sl = <<>>

PendingNext == DoApplyComp \/ DoLoadData \/ DoResample \/ DoCrop \/ DoAppend

PendingSpec == PendingInit /\ [][PendingNext]_vars

\* C38: a container that is flagged preloaded holds no pending compensation
\* operator (_comp is None), after any sequence of
\* apply_gradient_compensation, load_data, resample, crop and append.
C38_PreloadedHasNoPendingComp == raw.preload => raw._comp = "None"

\* C37: the rejection mode of get_data is matched whatever its casing: every
\* casing that the option check accepts for 'omit' excises the bad samples,
\* and every casing of 'nan' fills them with NaN and keeps the sample count.
C37_RejectModeAnyCasing ==
    op.name = "get_data" /\ GetStart < GetStop /\ op.pre.annotations # <<>> =>
      /\ Lower(op.preload) = "omit"
           => /\ op.err = "None"
              /\ op.out.data = GoodData(op.pre, GetStart, GetStop)
      /\ Lower(op.preload) = "nan"
           => /\ op.err = "None"
              /\ Len(op.out.data) = GetStop - GetStart
              /\ \A k \in 1..(GetStop - GetStart) :
                    (op.out.data[k] = NaN) <=> InBad(op.pre, GetStart + k - 1)

====
